---- MODULE Spec2Model ----
(***************************************************************************)
(* Entity simulation core of the circle game: Circle records, the per-     *)
(* frame update_circle dispatch, the click handler and the split-on-death  *)
(* rule, as a state machine.                                               *)
(*                                                                         *)
(* Conventions of the model                                                *)
(*   - the playfield is the horizontal line through the entities: every y  *)
(*     coordinate is equal, so a distance is |dx|;                         *)
(*   - positions are whole pixels; radii are in 1/1000 pixel (the code's   *)
(*     radii are products such as 30 * 0.6 * 0.6);                         *)
(*   - size_variation, probabilities and progress values are per mille;    *)
(*   - `now` is pygame.time.get_ticks() in milliseconds; the code's        *)
(*     seconds (get_ticks() / 1000.0) are compared in milliseconds;        *)
(*   - every random.* draw of the code is an existentially chosen value    *)
(*     from a small tuple indexed by a per-entity draw r \in Rand.         *)
(***************************************************************************)
EXTENDS Integers, Sequences, FiniteSets, TLC

VARIABLES
    state,                \* Game.state
    difficulty,           \* Game.difficulty (every Circle is created with it)
    round_num,            \* Game.round_num
    click_radius_helper,  \* Game.accessibility['click_radius_helper']
    circles,              \* Game.circles, the live collection
    score,                \* Game.score
    lives,                \* Game.lives
    circles_to_spawn,     \* Game.circles_to_spawn
    spawn_timer,          \* Game.spawn_timer
    cursor_is_grabbed,    \* Game.cursor_is_grabbed
    virtual_mouse_pos,    \* Game.virtual_mouse_pos (x only)
    now,                  \* pygame.time.get_ticks() at the last frame
    next_id,              \* identity of the next Circle object
    triangles,            \* Game.triangles, the live projectile list
    cursor_hidden,        \* Game.cursor_hidden
    cursor_hide_start_time,  \* Game.cursor_hide_start_time
    frame_env,            \* what the environment may do: frame durations (ms), cursor
                          \* offsets, random draws, obstacle hits, and the time horizon
    last_tick,            \* observation of the last Game.update
    last_click            \* observation of the last Game.handle_click

vars == <<state, difficulty, round_num, click_radius_helper, circles, score,
          lives, circles_to_spawn, spawn_timer, cursor_is_grabbed,
          virtual_mouse_pos, now, next_id, triangles, cursor_hidden,
          cursor_hide_start_time, frame_env, last_tick, last_click>>

(***************************************************************************)
(* Bounds of the model.                                                    *)
(***************************************************************************)
TargetFps == 6          \* frame rate handed to every Circle (165 in game_config), scaled down
NRand == 3              \* number of distinct outcomes of a random draw
MoveStep == 40          \* pixels an entity may drift per frame in either direction
TriangleCount == 2      \* projectiles of one volley (random.randint(5, 9) in the code)
TriangleStep == 60      \* pixels a projectile moves per frame

Rand == 0 .. (NRand - 1)

(***************************************************************************)
(* Program constants.                                                      *)
(***************************************************************************)
ScreenWidth == 1200
ScreenHeight == 800
ClickRadius == 30
StartLives == 4
SandboxLives == 3
SandboxRound == 15

Difficulties == {"EASY", "MEDIUM", "HARD", "NIGHTMARE"}

Abs(n) == IF n < 0 THEN -n ELSE n
Min(a, b) == IF a < b THEN a ELSE b
Max(a, b) == IF a > b THEN a ELSE b
Pick(tuple, r) == tuple[(r % Len(tuple)) + 1]

\* Difficulty enum value (1..4)
DifficultyValue(d) ==
    CASE d = "EASY" -> 1 [] d = "MEDIUM" -> 2 [] d = "HARD" -> 3 [] OTHER -> 4

\* difficulty_health_multiplier, times 10
HealthMult(d) ==
    CASE d = "EASY" -> 8 [] d = "MEDIUM" -> 10 [] d = "HARD" -> 12 [] OTHER -> 15

\* difficulty_points_multiplier, times 10
PointsMult(d) ==
    CASE d = "EASY" -> 12 [] d = "MEDIUM" -> 10 [] d = "HARD" -> 9 [] OTHER -> 8

\* post_round_20_health_bonus
PostRound20HealthBonus(rn) ==
    IF rn > 20
    THEN 2 + (IF rn - 20 >= 10 THEN 1 ELSE 0) + (IF rn - 20 >= 20 THEN 1 ELSE 0)
           + (IF rn - 20 >= 30 THEN 1 ELSE 0)
    ELSE 0

\* proximity_teleport_range in pixels (scale_factor 1)
ProximityTeleportRange(d) ==
    CASE d = "EASY" -> 120 [] d = "MEDIUM" -> 100 [] d = "HARD" -> 80 [] OTHER -> 60

\* proximity_teleport_interval_frames = int(seconds * target_fps)
ProximityTeleportIntervalFrames(d) ==
    LET tenths == CASE d = "EASY" -> 35 [] d = "MEDIUM" -> 25 [] d = "HARD" -> 20 [] OTHER -> 15
    IN (tenths * TargetFps) \div 10

\* the cap applied to the cooldown while the cursor is far: int(0.5 * target_fps)
FarCooldownCap == TargetFps \div 2

\* death_duration = int(30 * (target_fps / 60))
DeathDuration == (30 * TargetFps) \div 60

\* pre_grab_delay in ms; Sandbox always uses 0.1 s
PreGrabDelay(d, st) ==
    IF st = "SANDBOX" THEN 100
    ELSE CASE d = "EASY" -> 700 [] d = "MEDIUM" -> 500 [] d = "HARD" -> 300 [] OTHER -> 100

GrabDistance == 15

\* self_destruct_duration = duration * target_fps (frames)
SelfDestructDuration(d) ==
    (CASE d = "EASY" -> 6 [] d = "MEDIUM" -> 5 [] d = "HARD" -> 4 [] OTHER -> 3) * TargetFps

RegenCooldown == 3000
RegenRate == 500

\* SHOOTER and Triangle constants (ms, pixels)
DetectionRange == 150
ShotCooldown == 2000
BaseSpinUpTime == 300
TriangleLifetime == 10000
TriangleFadeDuration == 1000
TriangleHitFade == 100
TriangleSize == 15
CursorHideDuration == 3000

\* int(base_spin_up_time * difficulty_spin_mult)
SpinUpTime(d) ==
    CASE d = "EASY" -> 300 [] d = "MEDIUM" -> 210 [] d = "HARD" -> 150 [] OTHER -> 90

\* lines 289-302 of circle_behavior.py compare Game.difficulty, a Difficulty
\* enum member, with the strings 'Easy', 'Medium' and 'Hard': no comparison
\* is ever true and the last branch is taken at every difficulty
VisibilityAfterShot(d) == 1500

(***************************************************************************)
(* Circle.__init__ and Circle._setup_type_properties.                      *)
(* rnd holds the constructor's random draws.                               *)
(***************************************************************************)
BlankCircle ==
    [ id |-> 0, type |-> "NORMAL", x |-> 0, round_num |-> 1,
      scale_factor |-> 1000,       \* per mille; only an expanding hexagon changes it
      base_radius |-> 30000, radius |-> 30000, size_variation |-> 1000,
      dying |-> FALSE, death_timer |-> 0,
      health |-> 1, max_health |-> 1, points |-> 10,
      split_generation |-> 0, max_split_generations |-> 0,
      \* movement pattern; pattern_local is the scalar only the assigned pattern
      \* owns (orbital_angle, len(mouse_history), bounce_timer, serpentine_phase,
      \* evasive_timer), pattern_velocity the size of the velocity the last
      \* pattern step added, per mille of speed
      movement_pattern |-> "WANDERING", wander_timer |-> 0, wander_duration |-> 60,
      zigzag_timer |-> 0, zigzag_interval |-> 0, zigzag_speed_multiplier |-> 0,
      pattern_local |-> 0, pattern_velocity |-> 0,
      \* corner escape (hasattr default 0 / 'normal'); y is the height of the
      \* line the entity moves on
      y |-> ScreenHeight \div 2, corner_escape_timer |-> 0, escape_intensity |-> "normal",
      obs_corner_ticks |-> 0,      \* observer: consecutive updates that found it in a corner
      teleport_cooldown |-> 0,
      \* HEXAGON
      hollow_alpha |-> 25500, is_filled |-> TRUE, target_alpha |-> 25500,
      is_expanding_hexagon |-> FALSE, expansion_type |-> "slow",
      expansion_phase |-> "expanding", expansion_progress |-> 0,
      expansion_speed |-> 0, hollow_speed |-> 0, hollow_timer |-> 0,
      reset_cooldown |-> 0, reset_cooldown_duration |-> 0,
      random_growth_behavior |-> "normal", behavior_timer |-> 0,
      behavior_interval |-> 0, random_target_alpha |-> 25500,
      thin_outline |-> FALSE, max_expansion |-> 1000,
      is_growing_hexagon |-> FALSE, growth_multiplier |-> 1000,
      \* SNAKE
      segments |-> << >>, segments_killed |-> 0, direction_x |-> 1,
      speed_boost_timer |-> 0, speed_boost_cooldown_timer |-> 0,
      speed_boost_duration |-> 0, speed_boost_cooldown_duration |-> 0,
      turn_timer |-> 0, turn_interval |-> 30,
      circle_mode |-> FALSE, circle_timer |-> 0, circle_duration |-> 0,
      erratic_mode_timer |-> 0, zigzag_mode |-> FALSE,
      \* the last two entries of position_history and the last ten of
      \* movement_distances: the only ones the code reads
      position_history |-> << >>, movement_distances |-> << >>,
      stuck_threshold_timer |-> 0, escape_ignore_cursor_timer |-> 0,
      \* CURSOR_GRABBER
      is_grabbing |-> FALSE, is_stalking |-> FALSE, will_attack |-> FALSE,
      wait_time |-> 0, wait_start_time |-> 0, stalk_start_time |-> 0,
      pre_grab_start_time |-> 0, pre_grab_delay |-> 0,
      grab_start_time |-> 0, grab_duration |-> 0,
      cursor_target_x |-> -1,      \* -1: the attribute does not exist yet
      obs_in_range_since |-> 0,    \* observer: start of the current in-range run
      obs_far |-> FALSE,           \* observer: cursor was far in the last update
      obs_reentry |-> FALSE,       \* observer: last update in range, the one before far
      obs_regenerated |-> FALSE,   \* observer: regeneration has restored health
      \* SHOOTER (needs_teleport is set and consumed within one update_circle call)
      last_shot_time |-> 0, has_fired |-> FALSE,
      active_triangles |-> << >>,  \* keys <<spawn_time, k>> of the tracked projectiles
      spin_up_time |-> 0, difficulty_known |-> FALSE,
      spin_start_time |-> 0, is_spinning |-> FALSE,
      is_invisible |-> FALSE, invisibility_start_time |-> 0, invisibility_duration |-> 0,
      shot_fired_time |-> 0, visibility_after_shot |-> 0,
      \* SUPERTANK
      last_clicked_time |-> 0, regen_active |-> FALSE, regen_timer |-> 0,
      self_destruct_active |-> FALSE, self_destruct_timer |-> 0,
      self_destruct_duration |-> 0 ]

\* the bonus handed to every entity, split children and grabbers included
ApplyRoundBonusToAll(c, rn) ==
    LET bonus == PostRound20HealthBonus(rn)
    IN IF bonus > 0
       THEN [c EXCEPT !.max_health = c.max_health + bonus,
                      !.health = c.max_health + bonus,
                      !.points = (c.points * (10 + 3 * bonus)) \div 10]
       ELSE c

\* the post-round-20 bonus at the end of _setup_type_properties
ApplyRoundBonus(c, rn) ==
    LET bonus == PostRound20HealthBonus(rn)
    IN IF bonus > 0 /\ c.split_generation = 0 /\ c.type # "CURSOR_GRABBER"
       THEN [c EXCEPT !.max_health = c.max_health + bonus,
                      !.health = c.max_health + bonus,
                      !.points = (c.points * (10 + 3 * bonus)) \div 10]
       ELSE c

SnakeSpacing == 35

\* segment positions trailing behind the head
InitialSegments(x, len, dir) == [i \in 1 .. len |-> x - i * SnakeSpacing * dir]

SnakePoints(len) == IF len <= 9 THEN 60 + len * 15 ELSE 195 + (len - 9) * 25

\* _assign_movement_pattern and _init_movement_pattern_properties; p is the
\* index of the random draws
InitMovementPatternProperties(c, rn, p) ==
    LET patterns ==
            IF rn < 3 THEN <<"WANDERING", "WANDERING", "WANDERING", "ZIGZAG">>
            ELSE IF rn < 6 THEN <<"WANDERING", "WANDERING", "ZIGZAG", "ORBITAL", "BOUNCY">>
            ELSE IF rn < 10 THEN <<"WANDERING", "ZIGZAG", "ORBITAL", "BOUNCY", "SERPENTINE">>
            ELSE <<"WANDERING", "ZIGZAG", "ORBITAL", "PREDICTIVE", "BOUNCY", "SERPENTINE",
                   "EVASIVE">>
                 \o (IF rn >= 12 THEN <<"EVASIVE", "PREDICTIVE", "EVASIVE", "PREDICTIVE">>
                     ELSE << >>)
        Zigzag(c1) ==
            IF c1.movement_pattern = "ZIGZAG"
            THEN [c1 EXCEPT !.zigzag_interval = Pick(<<30, 60, 90>>, p),
                            !.zigzag_speed_multiplier = Pick(<<800, 1100, 1400>>, p)]
            ELSE c1
    IN Zigzag([c EXCEPT !.movement_pattern = Pick(patterns, p),
                        !.wander_duration = Pick(<<60, 120, 180>>, p)])

\* the type branches of _setup_type_properties, before the post-round-20 bonus
SetupTypeProperties(id, x, type, sv, gen, maxgen, d, rn, st, rnd) ==
    LET pm == PointsMult(d)
        hm == HealthMult(d)
        b0 == [InitMovementPatternProperties(BlankCircle, rn, rnd.pattern)
                  EXCEPT !.id = id, !.x = x, !.type = type, !.round_num = rn,
                         !.size_variation = sv,
                         !.split_generation = gen,
                         !.max_split_generations = maxgen]
        \* radius = base_radius * scale_factor * size_variation (end of __init__)
        Sized(c, base) == [c EXCEPT !.base_radius = base,
                                    !.radius = (base * sv) \div 1000]
        typed ==
          CASE type = "TELEPORTING" ->
                 [Sized(b0, 30 * sv) EXCEPT
                    !.points = (25 * pm) \div 10,
                    !.teleport_cooldown = rnd.initial_delay]
            [] type = "SMALL" ->
                 [Sized(b0, 15000) EXCEPT !.points = (30 * pm) \div 10]
            [] type = "TANK" ->
                 [Sized(b0, 25 * sv) EXCEPT
                    !.max_health = Max(1, (3 * hm) \div 10),
                    !.health = Max(1, (3 * hm) \div 10),
                    !.points = (50 * pm) \div 10]
            [] type = "SUPERTANK" ->
                 [Sized(b0, 40 * sv) EXCEPT
                    !.max_health = Max(1, (rnd.base_health * hm) \div 10),
                    !.health = Max(1, (rnd.base_health * hm) \div 10),
                    !.points = (300 * pm) \div 10,
                    !.self_destruct_duration = SelfDestructDuration(d)]
            [] type = "HEXAGON" ->
                 LET base_health == IF rn >= 15 THEN 4 ELSE IF rn >= 10 THEN 3 ELSE 2
                     final_health == base_health + (DifficultyValue(d) - 1)
                     mh == Max(2, (final_health * hm) \div 10)
                 IN [Sized(b0, 35 * sv) EXCEPT
                       !.max_health = mh, !.health = mh,
                       !.points = (45 * pm) \div 10,
                       !.is_expanding_hexagon = rnd.is_expanding_hexagon,
                       !.expansion_type = rnd.expansion_type,
                       !.thin_outline = rnd.thin_outline,
                       !.max_expansion = rnd.max_expansion,
                       !.is_growing_hexagon = rnd.is_growing_hexagon,
                       !.expansion_speed = rnd.expansion_speed,
                       !.hollow_speed = rnd.hollow_speed,
                       !.reset_cooldown_duration = rnd.reset_cooldown_duration,
                       !.random_growth_behavior = rnd.random_growth_behavior,
                       !.behavior_interval = rnd.behavior_interval]
            [] type = "CURSOR_GRABBER" ->
                 [Sized(b0, 25 * sv) EXCEPT
                    !.points = (75 * pm) \div 10,
                    !.grab_duration = rnd.grab_duration,
                    !.pre_grab_delay = PreGrabDelay(d, st),
                    !.wait_time = rnd.wait_time]
            [] type = "SHOOTER" ->
                 [Sized(b0, 35 * sv) EXCEPT
                    !.max_health = (10 * hm) \div 10,
                    !.health = (10 * hm) \div 10,
                    !.points = (120 * pm) \div 10,
                    !.spin_up_time = BaseSpinUpTime]
            [] type = "SNAKE" ->
                 [Sized(b0, 20 * sv) EXCEPT
                    !.points = (SnakePoints(rnd.snake_length) * pm) \div 10,
                    !.direction_x = rnd.direction_x,
                    !.turn_interval = rnd.turn_interval,
                    !.segments = InitialSegments(x, rnd.snake_length, rnd.direction_x)]
            [] OTHER ->
                 [Sized(b0, 30 * sv) EXCEPT !.points = (10 * pm) \div 10]
    IN typed

Circle(id, x, type, sv, gen, maxgen, d, rn, st, rnd) ==
    ApplyRoundBonus(SetupTypeProperties(id, x, type, sv, gen, maxgen, d, rn, st, rnd), rn)

(***************************************************************************)
(* Circle.take_damage.  roll is random.random() in per mille, rs the draws *)
(* of the two children.  Returns the damaged circle, the return value and  *)
(* the children appended to Game.circles.                                  *)
(***************************************************************************)
Rolls == <<500, 0, 999>>

\* split_chance in per mille, before the generation and size overrides
BaseSplitChance(c, d, rn, st) ==
    IF st = "SANDBOX" THEN 1000
    ELSE LET base == IF c.max_split_generations = 2 THEN 250 ELSE 200
             bonus == CASE d = "EASY" -> (rn \div 2) * 5
                        [] d = "MEDIUM" -> (rn - 1) * 5
                        [] d = "HARD" -> (rn - 1) * 10
                        [] OTHER -> (rn - 1) * 20
         IN Min(1000, base + bonus)

\* new_size_variation = max(0.4, size_variation * 0.6)
NewSizeVariation(sv) == Max(400, (sv * 600) \div 1000)

\* new_radius < min_viable_radius, both times 10^6
ChildTooSmall(c) == c.base_radius * NewSizeVariation(c.size_variation) < 8 * 1000000

SplitChanceNoGenerationCap(c, d, rn, st) ==
    IF ChildTooSmall(c) THEN 0 ELSE BaseSplitChance(c, d, rn, st)

\* the cap one generation late
SplitChanceOneMoreGeneration(c, d, rn, st) ==
    IF c.split_generation > c.max_split_generations \/ ChildTooSmall(c)
    THEN 0
    ELSE BaseSplitChance(c, d, rn, st)

SplitChance(c, d, rn, st) ==
    IF c.split_generation >= c.max_split_generations \/ ChildTooSmall(c)
    THEN 0
    ELSE BaseSplitChance(c, d, rn, st)

\* initial_delay = int(random.uniform(1.0, 2.0) * target_fps)
InitialDelays == <<TargetFps, 2 * TargetFps, (3 * TargetFps) \div 2>>

\* the children staying in their parent's generation
ChildGenerationKept(c) == c.split_generation

\* line 1017
ChildGeneration(c) == c.split_generation + 1

SplitChild(c, id, r, d, st) ==
    LET offset == (c.radius \div 2000) * Pick(<<1, -1>>, r)
    IN Circle(id, c.x + offset, "TELEPORTING", NewSizeVariation(c.size_variation),
              ChildGeneration(c), c.max_split_generations, d, c.round_num, st,
              [initial_delay |-> Pick(InitialDelays, r), pattern |-> r])

\* the sequence never started
StartSelfDestructSkipped(c) == c

\* Circle.start_self_destruct
StartSelfDestruct(c) ==
    IF c.type = "SUPERTANK" /\ ~c.self_destruct_active
    THEN [c EXCEPT !.self_destruct_active = TRUE, !.self_destruct_timer = 0]
    ELSE c

DeadAtZeroOnly(h) == h < 0

DeadAt(h) == h <= 0

TakeDamage(c, roll, rs, d, st, id0) ==
    LET Result(c2) ==
            IF DeadAt(c2.health)
            THEN [ c |-> [c2 EXCEPT !.dying = TRUE],
                   removed |-> TRUE,
                   children |->
                     IF c2.type = "TELEPORTING" /\ roll < SplitChance(c2, d, c2.round_num, st)
                     THEN << SplitChild(c2, id0, rs[1], d, st),
                             SplitChild(c2, id0 + 1, rs[2], d, st) >>
                     ELSE << >> ]
            ELSE [ c |-> c2, removed |-> FALSE, children |-> << >> ]
        HalfHealth(c1) ==
            Result(IF c1.type = "SUPERTANK" /\ c1.health <= c1.max_health \div 2
                      /\ ~c1.self_destruct_active
                   THEN StartSelfDestruct(c1) ELSE c1)
    IN HalfHealth([c EXCEPT !.health = c.health - 1])

(***************************************************************************)
(* Circle.is_clicked.  The hit test of a SNAKE has a side effect: it       *)
(* eliminates the segment it decides was hit, so the operator returns the  *)
(* circle as well.                                                         *)
(***************************************************************************)
\* seg_radius = max(int(radius * 0.8), 8), in 1/1000 pixel
SegRadius(c) == Max((c.radius * 8) \div 10000, 8) * 1000

\* index (1-based) of the first surviving segment the position is on, 0 if none
RECURSIVE FirstSegmentHit(_, _, _)
FirstSegmentHit(c, pos, i) ==
    IF i > Len(c.segments) - c.segments_killed THEN 0
    ELSE IF Abs(c.segments[i] - pos) * 1000 <= SegRadius(c) THEN i
    ELSE FirstSegmentHit(c, pos, i + 1)

\* lines 1171-1195: only the expected (tail-most surviving) segment is eliminated
SnakeSegmentClick(c, pos) ==
    LET i == FirstSegmentHit(c, pos, 1)
        expected == Len(c.segments) - c.segments_killed
    IN IF i # 0 /\ i = expected
       THEN [c EXCEPT !.segments_killed = c.segments_killed + 1]
       ELSE c

\* outline thickness of a hollow hexagon, in 1/1000 pixel
OutlineThickness(c, d) ==
    LET base == IF c.is_expanding_hexagon /\ c.thin_outline THEN 2 ELSE 5
        buffer == CASE d = "EASY" -> 2000 [] d = "MEDIUM" -> 1500
                    [] d = "HARD" -> 1000 [] OTHER -> 800
    IN Max(1000, base * buffer)

\* the hexagon's vertical edges cut the line through its centre at +-cos(30) * draw_radius
HexagonHalfWidth(c) == Max(8, c.radius \div 1000) * 866

\* a grabbing grabber taking clicks like any other entity
GrabberNeverInvincible(c) == FALSE

\* lines 1046-1048 (and game_state.py line 1034): invincible while grabbing
GrabberInvincible(c) == c.type = "CURSOR_GRABBER" /\ c.is_grabbing

IsClicked(c, pos, d) ==
    LET dx == (pos - c.x) * 1000
        onHead == Abs(dx) <= c.radius
    IN IF GrabberInvincible(c)
       THEN [hit |-> FALSE, c |-> c]
       ELSE IF c.type = "HEXAGON"
       THEN IF c.is_filled
            THEN [hit |-> (-HexagonHalfWidth(c) <= dx /\ dx < HexagonHalfWidth(c)), c |-> c]
            ELSE [hit |-> Abs(Abs(dx) - HexagonHalfWidth(c)) <= OutlineThickness(c, d), c |-> c]
       ELSE IF c.type = "SNAKE"
       THEN IF FirstSegmentHit(c, pos, 1) # 0
            THEN [hit |-> FALSE, c |-> SnakeSegmentClick(c, pos)]
            ELSE [hit |-> (c.segments_killed >= Len(c.segments) /\ onHead), c |-> c]
       ELSE [hit |-> onHead, c |-> c]

(***************************************************************************)
(* Game.handle_click.                                                      *)
(***************************************************************************)
\* enhanced-radius test of the click radius helper for the types without restrictions
EnhancedHit(c, pos) == Abs(c.x - pos) * 1000 <= ClickRadius * 1000 + c.radius

\* lines 1037-1062: a snake that still has segments, helper enabled, normal
\* click already refused.  The head area is never clickable; the expected
\* segment, when inside the enhanced radius, is passed to is_clicked at its centre.
HelperSnake(c, pos, d) ==
    IF EnhancedHit(c, pos)
    THEN [hit |-> FALSE, c |-> c]
    ELSE LET expected == Len(c.segments) - c.segments_killed
         IN IF Abs(c.segments[expected] - pos) * 1000 <= ClickRadius * 1000 + SegRadius(c)
            THEN IsClicked(c, c.segments[expected], d)
            ELSE [hit |-> FALSE, c |-> c]

\* the helper without the snake restriction: every type uses the enhanced radius
CanClickHelperNoSnakeRule(c, pos, d) ==
    LET Second(first) ==
            IF first.hit THEN first
            ELSE IF GrabberInvincible(c)
            THEN [hit |-> FALSE, c |-> first.c]
            ELSE [hit |-> EnhancedHit(first.c, pos), c |-> first.c]
    IN Second(IsClicked(c, pos, d))

\* lines 1024-1066: can_click with the click radius helper
CanClickHelper(c, pos, d) ==
    LET Second(first) ==
            IF first.hit THEN first
            ELSE IF GrabberInvincible(c)
            THEN [hit |-> FALSE, c |-> first.c]
            ELSE IF c.type = "SNAKE" /\ first.c.segments_killed < Len(first.c.segments)
            THEN HelperSnake(first.c, pos, d)
            ELSE [hit |-> EnhancedHit(first.c, pos), c |-> first.c]
    IN Second(IsClicked(c, pos, d))

CanClick(c, pos, d, helper) ==
    IF helper THEN CanClickHelper(c, pos, d) ELSE IsClicked(c, pos, d)

TypePriority(c) ==
    CASE c.type = "HEXAGON" -> -5
      [] c.type \in {"TANK", "SUPERTANK"} -> -3
      [] c.type = "SMALL" -> -2
      [] OTHER -> 0

PriorityScore(c, pos) == Abs(c.x - pos) + TypePriority(c)

\* a dying circle stays a candidate
ClickableIgnoringDying(c, hit) == hit

\* an invisible shooter taking clicks
ClickableWhenInvisible(c, hit) == hit /\ ~c.dying

\* lines 1071-1075
Clickable(c, hit) == hit /\ ~c.dying /\ ~(c.type = "SHOOTER" /\ c.is_invisible)

\* the scan of Game.circles: the circles after the hit tests and the
\* indices of the clickable ones
RECURSIVE ClickScan(_, _, _, _, _, _)
ClickScan(cs, i, pos, d, helper, cand) ==
    LET Body(res) ==
            ClickScan([cs EXCEPT ![i] = res.c], i + 1, pos, d, helper,
                      IF Clickable(res.c, res.hit) THEN Append(cand, i) ELSE cand)
    IN IF i > Len(cs) THEN [cs |-> cs, cand |-> cand]
       ELSE Body(CanClick(cs[i], pos, d, helper))

\* clickable_circles.sort(key=score)[0]: the first candidate of least score
RECURSIVE BestCandidate(_, _, _, _, _)
BestCandidate(cs, cand, pos, k, best) ==
    IF k > Len(cand) THEN best
    ELSE BestCandidate(cs, cand, pos, k + 1,
            IF best = 0 \/ PriorityScore(cs[cand[k]], pos) < PriorityScore(cs[best], pos)
            THEN cand[k] ELSE best)

\* lines 1100-1103: a click on a supertank restarts its regeneration cooldown
\* a click that leaves the regeneration running
TrackNoSupertankClick(c, t) == c

TrackSupertankClick(c, t) ==
    IF c.type = "SUPERTANK"
    THEN [c EXCEPT !.last_clicked_time = t, !.regen_active = FALSE]
    ELSE c

\* every hit scored
ScoreEveryHit(sc, c, killed) == sc + c.points

\* lines 1105-1106: the points are added when take_damage returned True
ScoreAfterHit(sc, c, killed) == IF killed THEN sc + c.points ELSE sc

HandleClick(pos0, roll, rs) ==
    LET pos == IF cursor_is_grabbed THEN virtual_mouse_pos ELSE pos0
        Damaged(cs, t, dmg) ==
            /\ circles' = [cs EXCEPT ![t] = dmg.c] \o dmg.children
            /\ score' = ScoreAfterHit(score, dmg.c, dmg.removed)
            /\ next_id' = next_id + Len(dmg.children)
            \* circle.py line 1023: a split counts one more circle to spawn
            /\ circles_to_spawn' = IF dmg.children # << >> THEN circles_to_spawn + 1
                                   ELSE circles_to_spawn
            /\ last_click' = [pos |-> pos, target |-> dmg.c.id, removed |-> dmg.removed,
                              children |-> Len(dmg.children)]
        Chosen(cs, t) ==
            IF t = 0
            THEN /\ circles' = cs
                 /\ last_click' = [pos |-> pos, target |-> 0, removed |-> FALSE, children |-> 0]
                 /\ UNCHANGED <<score, next_id, circles_to_spawn>>
            ELSE Damaged(cs, t, TakeDamage(TrackSupertankClick(cs[t], now), roll, rs,
                                           difficulty, state, next_id))
        Scanned(scan) == Chosen(scan.cs, BestCandidate(scan.cs, scan.cand, pos, 1, 0))
    IN Scanned(ClickScan(circles, 1, pos, difficulty, click_radius_helper, << >>))

\* positions the player clicks at: on and around every head and segment
ClickPositions ==
    LET anchors == {circles[i].x : i \in 1 .. Len(circles)} \cup
                   UNION {{circles[i].segments[k] : k \in 1 .. Len(circles[i].segments)}
                             : i \in 1 .. Len(circles)}
    IN {p \in {a + o : a \in anchors, o \in frame_env.clicks} : p >= 0 /\ p <= ScreenWidth}

\* lines 1012-1014: handle_click returns at once while the cursor is hidden
Click ==
    /\ state \in {"PLAYING", "SANDBOX"}
    /\ ~cursor_hidden
    /\ now <= frame_env.click_until
    /\ \E pos \in ClickPositions, r \in frame_env.rand :
          HandleClick(pos, Pick(Rolls, r), <<r, r + 1>>)
    /\ UNCHANGED <<state, difficulty, round_num, click_radius_helper, lives, spawn_timer,
                   cursor_is_grabbed, virtual_mouse_pos, now, frame_env, last_tick,
                   triangles, cursor_hidden, cursor_hide_start_time>>

(***************************************************************************)
(* circle_behavior.update_circle, one operator per branch.                 *)
(***************************************************************************)
RadiusPx(c) == c.radius \div 1000

\* velocity integration of one frame, as a drift of at most MoveStep pixels
Drifts == <<0, MoveStep, -MoveStep>>

\* _apply_movement_pattern_behavior, with _apply_wandering_movement
ApplyMovementPatternBehavior(c, r) ==
    CASE c.movement_pattern = "WANDERING" ->
           IF c.wander_timer + 1 >= c.wander_duration
           THEN [c EXCEPT !.wander_timer = 0,
                          !.wander_duration = Pick(<<60, 120, 180>>, r),
                          !.pattern_velocity = 100]
           ELSE [c EXCEPT !.wander_timer = c.wander_timer + 1,
                          !.pattern_velocity = 100]
      [] c.movement_pattern = "ZIGZAG" ->
           IF c.zigzag_timer + 1 >= c.zigzag_interval
           THEN [c EXCEPT !.zigzag_timer = 0,
                          !.zigzag_interval = Pick(<<30, 60, 90>>, r),
                          !.pattern_velocity = c.zigzag_speed_multiplier \div 2]
           ELSE [c EXCEPT !.zigzag_timer = c.zigzag_timer + 1,
                          !.pattern_velocity = c.zigzag_speed_multiplier \div 2]
      [] OTHER -> c

\* _apply_standard_physics: move, then keep the circle inside the screen
CornerMargin == 60            \* margin_multiplier of _detect_corner_proximity
CornerEscapeFrames == 120     \* corner_escape_timer of a normal escape
IntenseEscapeFrames == 180    \* corner_escape_timer of an intense escape
SafeDistance == 120           \* safe_distance of a normal escape
IntenseSafeDistance == 200    \* safe_distance of an intense escape

\* _detect_corner_proximity: margin = 60 * scale_factor (scale_factor per mille)
DetectCornerProximity(c) ==
    LET near_left == c.x * 1000 < CornerMargin * c.scale_factor
        near_right == c.x * 1000 > ScreenWidth * 1000 - CornerMargin * c.scale_factor
        near_top == c.y * 1000 < CornerMargin * c.scale_factor
        near_bottom == c.y * 1000 > ScreenHeight * 1000 - CornerMargin * c.scale_factor
    IN [ near_left |-> near_left, near_right |-> near_right,
         near_top |-> near_top, near_bottom |-> near_bottom,
         in_corner |-> (near_left /\ near_top) \/ (near_right /\ near_top)
                       \/ (near_left /\ near_bottom) \/ (near_right /\ near_bottom) ]

\* _handle_corner_escape: the entity with its timer and intensity, and the
\* horizontal push of the escape force (+1 right, -1 left, 0 none).  The draw
\* r % 3 = 2 is random.random() < 0.3; (r + 1) % 3 # 2 is random.random() < 0.7.
HandleCornerEscape(c, r) ==
    LET info == DetectCornerProximity(c)
        starts == info.in_corner /\ c.corner_escape_timer <= 0
        intensity == IF starts THEN (IF r % 3 = 2 THEN "intense" ELSE "normal")
                     ELSE c.escape_intensity
        timer == IF starts
                 THEN (IF r % 3 = 2 THEN IntenseEscapeFrames ELSE CornerEscapeFrames)
                 ELSE c.corner_escape_timer
        safe == (IF intensity = "intense" THEN IntenseSafeDistance ELSE SafeDistance)
                    * c.scale_factor
        far_from_edges == /\ c.x * 1000 > safe
                          /\ c.x * 1000 < ScreenWidth * 1000 - safe
                          /\ c.y * 1000 > safe
                          /\ c.y * 1000 < ScreenHeight * 1000 - safe
        exits == far_from_edges /\ (intensity = "normal" \/ (r + 1) % 3 # 2)
        observed == [c EXCEPT !.escape_intensity = intensity,
                              !.obs_corner_ticks =
                                  IF info.in_corner THEN Min(c.obs_corner_ticks + 1, 3) ELSE 0]
    IN IF timer <= 0 THEN [c |-> observed, push |-> 0]
       ELSE IF exits THEN [c |-> [observed EXCEPT !.corner_escape_timer = 0], push |-> 0]
       ELSE [c |-> [observed EXCEPT !.corner_escape_timer = timer - 1],
             push |-> (IF info.near_left THEN 1 ELSE 0) - (IF info.near_right THEN 1 ELSE 0)]

\* _apply_standard_physics: corner escape, the position update and the bounce
\* off the walls; an escape force replaces the drift of the frame
StandardMovement(c, r) ==
    LET Moved(e) ==
            LET x1 == e.c.x + (IF e.push = 0 THEN Pick(Drifts, r) ELSE e.push * MoveStep)
            IN IF x1 - RadiusPx(c) <= 0 \/ x1 + RadiusPx(c) >= ScreenWidth
               THEN [e.c EXCEPT !.x = Max(RadiusPx(c), Min(ScreenWidth - RadiusPx(c), x1))]
               ELSE [e.c EXCEPT !.x = x1]
    IN Moved(HandleCornerEscape(c, r))

\* the death animation with the self-destruct countdown still running
UpdateDyingCountingDown(c) ==
    [ c |-> [c EXCEPT !.death_timer = c.death_timer + 1,
                      !.radius = (c.base_radius * (DeathDuration + 2 * (c.death_timer + 1)))
                                     \div DeathDuration,
                      !.self_destruct_timer =
                          IF c.self_destruct_active THEN c.self_destruct_timer + 1
                          ELSE c.self_destruct_timer],
      remove |-> c.death_timer + 1 >= DeathDuration ]

\* the death animation kept one tick longer
UpdateDyingOneTickLate(c) ==
    [ c |-> [c EXCEPT !.death_timer = c.death_timer + 1,
                      !.radius = (c.base_radius * (DeathDuration + 2 * (c.death_timer + 1)))
                                     \div DeathDuration],
      remove |-> c.death_timer + 1 > DeathDuration ]

\* lines 62-67: the death animation; True once the timer reaches death_duration
UpdateDying(c) ==
    LET t1 == c.death_timer + 1
    IN [ c |-> [c EXCEPT !.death_timer = t1,
                         !.radius = (c.base_radius * (DeathDuration + 2 * t1)) \div DeathDuration],
         remove |-> t1 >= DeathDuration ]

TeleportXs == <<50, 600, 1150>>
TeleportFactors == <<75, 100, 125>>

\* the proximity test left out: the countdown runs wherever the cursor is
InTeleportRangeAlways(c, mouse, d) == TRUE

\* line 74: distance_to_player <= proximity_teleport_range
InTeleportRange(c, mouse, d) == Abs(c.x - mouse) <= ProximityTeleportRange(d)

\* the far branch re-arming the entity completely
FarCooldownReady(c) == Min(c.teleport_cooldown, 1)

\* line 91: min(teleport_cooldown, int(0.5 * target_fps))
FarCooldown(c) == Min(c.teleport_cooldown, FarCooldownCap)

\* lines 70-91
UpdateTeleporting(c, mouse, r, d) ==
    IF InTeleportRange(c, mouse, d)
    THEN IF c.teleport_cooldown - 1 <= 0
         THEN [ c |-> [c EXCEPT !.x = Pick(TeleportXs, r),
                                !.teleport_cooldown =
                                   (ProximityTeleportIntervalFrames(d) * Pick(TeleportFactors, r)) \div 100],
                teleported |-> TRUE ]
         ELSE [ c |-> [c EXCEPT !.teleport_cooldown = c.teleport_cooldown - 1],
                teleported |-> FALSE ]
    ELSE [ c |-> [c EXCEPT !.teleport_cooldown = FarCooldown(c)], teleported |-> FALSE ]

(***************************************************************************)
(* SHOOTER: lines 160-304 of update_circle, and the Triangle projectiles.  *)
(* A projectile object is identified by its shooter, its spawn time and    *)
(* its place in the volley.                                                *)
(***************************************************************************)
TriangleKey(tri) == <<tri.shooter, tri.spawn_time, tri.k>>

\* Triangle.__init__
Triangle(shooter, k, x, vx, t) ==
    [shooter |-> shooter, k |-> k, x |-> x, vx |-> vx, size |-> TriangleSize,
     spawn_time |-> t, is_fading |-> FALSE, fade_start_time |-> 0,
     fade_duration |-> TriangleFadeDuration]

\* lines 241-275: the projectiles of one volley, fired in all directions from the shooter
Volley(c, t) ==
    [i \in 1 .. TriangleCount |->
        Triangle(c.id, i, c.x, (IF i % 2 = 1 THEN 1 ELSE -1) * TriangleStep, t)]

\* line 280, placed after the loop: what is appended to active_triangles is the
\* projectile created last
TrackedOfVolley(v) == << TriangleKey(v[Len(v)]) >>

InvisibilityDurations == <<2000, 3000, 4000>>
ShooterXs == <<100, 600, 1100>>

\* lines 165-172
GoInvisible(c, t, r) ==
    IF ~c.is_invisible /\ c.shot_fired_time > 0
       /\ t - c.shot_fired_time >= c.visibility_after_shot
    THEN [c EXCEPT !.is_invisible = TRUE,
                   !.invisibility_start_time = t,
                   !.invisibility_duration = Pick(InvisibilityDurations, r),
                   !.shot_fired_time = 0]
    ELSE c

\* lines 175-192: visible again, at a random place
Reappear(c, t, r) ==
    IF c.is_invisible /\ t - c.invisibility_start_time >= c.invisibility_duration
       /\ c.active_triangles = << >>
    THEN [c EXCEPT !.is_invisible = FALSE, !.x = Pick(ShooterXs, r)]
    ELSE c

\* lines 195-199: forget the tracked projectiles that left Game.triangles
CleanUpTriangles(c, tris) ==
    [c EXCEPT !.active_triangles =
        SelectSeq(c.active_triangles,
                  LAMBDA key : \E i \in 1 .. Len(tris) : TriangleKey(tris[i]) = key)]

\* the cooldown between two volleys left out
ShotCooldownIgnored(c, t) == TRUE

\* line 234
ShotCooldownElapsed(c, t) == t - c.last_shot_time >= ShotCooldown

\* lines 232-236: spin_progress >= 1.0 is t - spin_start_time >= spin_up_time
CanFire(c, t) ==
    /\ ~c.is_invisible
    /\ ShotCooldownElapsed(c, t)
    /\ c.active_triangles = << >>
    /\ t - c.spin_start_time >= c.spin_up_time

\* lines 201-304; dist is the distance to the cursor measured at the top of
\* the branch, before a relocation
SpinAndFire(c, dist, t, d) ==
    LET Spun(c1) ==
            IF CanFire(c1, t)
            THEN [ c |-> [c1 EXCEPT !.active_triangles =
                                       c1.active_triangles \o TrackedOfVolley(Volley(c1, t)),
                                    !.last_shot_time = t,
                                    !.has_fired = TRUE,
                                    !.is_spinning = FALSE,
                                    !.visibility_after_shot = VisibilityAfterShot(d),
                                    !.shot_fired_time = t],
                   fired |-> Volley(c1, t) ]
            ELSE [ c |-> c1, fired |-> << >> ]
    IN IF dist > DetectionRange
       THEN [ c |-> [c EXCEPT !.is_spinning = FALSE], fired |-> << >> ]
       ELSE Spun([c EXCEPT !.spin_up_time = IF c.difficulty_known THEN c.spin_up_time
                                            ELSE SpinUpTime(d),
                           !.difficulty_known = TRUE,
                           !.is_spinning = TRUE,
                           !.spin_start_time = IF c.is_spinning THEN c.spin_start_time ELSE t])

\* returns the shooter and the projectiles it appended to Game.triangles
UpdateShooter(c, mouse, t, r, d, tris) ==
    SpinAndFire(CleanUpTriangles(Reappear(GoInvisible(c, t, r), t, r), tris),
                Abs(c.x - mouse), t, d)

\* Triangle.update returning False: the fade is over
TriangleExpired(tri, t) == tri.is_fading /\ t - tri.fade_start_time >= tri.fade_duration

\* Triangle.update returning True: start of the fade, move, bounce
TriangleUpdate(tri, t) ==
    LET Move(faded, x1) ==
            IF x1 <= tri.size \/ x1 >= ScreenWidth - tri.size
            THEN [faded EXCEPT !.x = Max(tri.size, Min(ScreenWidth - tri.size, x1)),
                               !.vx = -tri.vx]
            ELSE [faded EXCEPT !.x = x1]
    IN Move(IF ~tri.is_fading /\ t - tri.spawn_time > TriangleLifetime - tri.fade_duration
            THEN [tri EXCEPT !.is_fading = TRUE, !.fade_start_time = t]
            ELSE tri,
            tri.x + tri.vx)

\* a fade started over by every touch of the cursor
StartFadeAgain(tri, t) ==
    [tri EXCEPT !.is_fading = TRUE, !.fade_start_time = t, !.fade_duration = TriangleHitFade]

\* Triangle.start_fade(100)
StartFade(tri, t) ==
    IF tri.is_fading THEN tri
    ELSE [tri EXCEPT !.is_fading = TRUE, !.fade_start_time = t,
                     !.fade_duration = TriangleHitFade]

\* game_state.py lines 1300-1312: acc holds the projectiles kept so far and the
\* cursor-hidden state
RECURSIVE TrianglesLoop(_, _, _, _, _)
TrianglesLoop(tris, k, mouse, t, acc) ==
    LET Kept(tri) ==
            IF ~acc.hidden /\ Abs(tri.x - mouse) < tri.size
            THEN TrianglesLoop(tris, k + 1, mouse, t,
                               [tris |-> Append(acc.tris, StartFade(tri, t)),
                                hidden |-> TRUE, start |-> t])
            ELSE TrianglesLoop(tris, k + 1, mouse, t,
                               [acc EXCEPT !.tris = Append(acc.tris, tri)])
    IN IF k > Len(tris) THEN acc
       ELSE IF TriangleExpired(tris[k], t) THEN TrianglesLoop(tris, k + 1, mouse, t, acc)
       ELSE Kept(TriangleUpdate(tris[k], t))

(***************************************************************************)
(* SUPERTANK: regeneration (lines 317-335) and self-destruct (337-370).    *)
(***************************************************************************)
\* line 331
RegenHealth(c) == Min(c.max_health, c.health + 1)

UpdateRegeneration(c, t) ==
    LET start == ~c.regen_active /\ c.health < c.max_health
        Heal(c1) ==
            IF c1.regen_active /\ c1.health < c1.max_health /\ t - c1.regen_timer >= RegenRate
            THEN [c1 EXCEPT !.health = RegenHealth(c1),
                            !.regen_timer = t,
                            !.regen_active = ~(RegenHealth(c1) >= c1.max_health)]
            ELSE c1
    IN Heal(IF c.last_clicked_time > 0 /\ t - c.last_clicked_time >= RegenCooldown
            THEN [c EXCEPT !.regen_active = IF start THEN TRUE ELSE c.regen_active,
                           !.regen_timer = IF start THEN t ELSE c.regen_timer,
                           !.last_clicked_time = 0]
            ELSE c)

\* the countdown held while the health is above half
UpdateSelfDestructHeldAboveHalf(c) ==
    IF c.self_destruct_active /\ c.health <= c.max_health \div 2
    THEN IF c.self_destruct_timer + 1 >= c.self_destruct_duration
         THEN [c |-> [c EXCEPT !.self_destruct_timer = c.self_destruct_timer + 1,
                               !.dying = TRUE],
               exploded |-> TRUE]
         ELSE [c |-> [c EXCEPT !.self_destruct_timer = c.self_destruct_timer + 1],
               exploded |-> FALSE]
    ELSE [c |-> c, exploded |-> FALSE]

\* lines 338-370: returns the circle and whether it exploded in this frame
UpdateSelfDestruct(c) ==
    IF c.self_destruct_active
    THEN LET c1 == [c EXCEPT !.self_destruct_timer = c.self_destruct_timer + 1]
         IN IF c1.self_destruct_timer >= c1.self_destruct_duration
            THEN [c |-> [c1 EXCEPT !.dying = TRUE], exploded |-> TRUE]
            ELSE [c |-> c1, exploded |-> FALSE]
    ELSE [c |-> c, exploded |-> FALSE]

(***************************************************************************)
(* HEXAGON: _update_hexagon_behavior and its helpers.                      *)
(* hollow_alpha and target_alpha are in 1/100 alpha unit, transition       *)
(* speeds, expansion_progress and hollow_timer in parts per million,       *)
(* proximity factors and growth multipliers per mille.  The assignments    *)
(* to circle.radius made by the growth and random-size helpers are not     *)
(* carried: update_circle overwrites radius after the hexagon branch.      *)
(***************************************************************************)
Clamp(lo, v, hi) == Max(lo, Min(hi, v))

\* round multiplier of the transition speeds, per mille
RoundMultiplier(rn) == Clamp(1000, 1000 + (rn - 8) * 40, 1400)

\* hollow_transition_speed in ppm
HollowTransitionSpeed(d, rn) ==
    LET tsm == CASE d = "EASY" -> 7 [] d = "MEDIUM" -> 10 [] d = "HARD" -> 14 [] OTHER -> 18
        dtm == CASE d = "EASY" -> 3 [] d = "MEDIUM" -> 6 [] d = "HARD" -> 10 [] OTHER -> 15
    IN (((2500 * TargetFps * tsm * dtm) \div 100) * RoundMultiplier(rn)) \div 1000

\* growth_transition_speed in ppm
GrowthTransitionSpeed(c, d) ==
    LET gsm == CASE d = "EASY" -> 8 [] d = "MEDIUM" -> 10 [] d = "HARD" -> 13 [] OTHER -> 16
        gdm == CASE d = "EASY" -> 5 [] d = "MEDIUM" -> 8 [] d = "HARD" -> 12 [] OTHER -> 18
        base == 300 * TargetFps * gsm
    IN IF c.is_growing_hexagon
       THEN (((base * gdm) \div 10) * RoundMultiplier(c.round_num)) \div 1000
       ELSE base

\* range_multiplier in ppm
RangeMultiplier(d, rn) ==
    (CASE d = "EASY" -> 800 [] d = "MEDIUM" -> 900 [] d = "HARD" -> 1000 [] OTHER -> 1100)
    * Clamp(1000, 1000 + (rn - 8) * 10, 1100)

\* proximity_threshold and min_distance in 1/1000 pixel
ProximityThreshold(d, rn) == (100 * RangeMultiplier(d, rn)) \div 1000
MinDistance(d, rn) == (40 * RangeMultiplier(d, rn)) \div 1000

\* proximity_factor per mille, dist in pixels
ProximityFactor(c, dist, d) ==
    LET lo == MinDistance(d, c.round_num)
        hi == ProximityThreshold(d, c.round_num)
    IN IF dist * 1000 <= lo THEN 1000
       ELSE IF dist * 1000 >= hi THEN 0
       ELSE 1000 - ((dist * 1000 - lo) * 1000) \div (hi - lo)

\* final_exponent in 1/100
CurveExponent(d, rn) ==
    (CASE d = "EASY" -> 70 [] d = "MEDIUM" -> 100 [] d = "HARD" -> 130 [] OTHER -> 160)
    + Clamp(0, (rn - 8) * 2, 30)

ISqrt(n) == CHOOSE s \in 0 .. 1000 : s * s <= n /\ (s + 1) * (s + 1) > n

\* x ** e for x per mille and e in 1/100: exact at x = 0 and x = 1, and
\* interpolated between x ** 0.5, x and x ** 2 in between
PowPermille(x, e) ==
    IF x = 0 THEN 0
    ELSE IF e < 100
    THEN LET rt == ISqrt(x * 1000) IN rt + ((x - rt) * (Max(e, 50) - 50)) \div 50
    ELSE LET sq == (x * x) \div 1000 IN x + ((sq - x) * (Min(e, 200) - 100)) \div 100

\* target_alpha = 255 - pf ** exponent * 240
TargetAlpha(pf, d, rn) == 25500 - (PowPermille(pf, CurveExponent(d, rn)) * 24000) \div 1000

\* smooth alpha transition and clamp to [15, 255]
SmoothAlpha(c, target, d) ==
    LET diff == target - c.hollow_alpha
        a1 == IF Abs(diff) > 100
              THEN c.hollow_alpha + (diff * (HollowTransitionSpeed(d, c.round_num) \div 10)) \div 100000
              ELSE target
    IN Clamp(1500, a1, 25500)

MaxGrowth(d) ==
    CASE d = "EASY" -> 1500 [] d = "MEDIUM" -> 2000 [] d = "HARD" -> 2500 [] OTHER -> 3000

\* _handle_hexagon_growth: the new growth_multiplier
HexagonGrowth(c, pf, d) ==
    LET target == IF pf > 50
                  THEN 1000 + (Min(pf * 2, 1000) * (MaxGrowth(d) - 1000)) \div 1000
                  ELSE 1000
        diff == target - c.growth_multiplier
    IN IF Abs(diff) > 10
       THEN c.growth_multiplier + (diff * GrowthTransitionSpeed(c, d)) \div 1000000
       ELSE target

BehaviorIntervals == <<60, 120, 180>>
RandomTargetAlphas == <<3000, 8000, 12000, 18000, 25500>>

\* _handle_hexagon_random_behavior
HexagonRandomBehavior(c, r) ==
    LET Hollow(c1, a1) == [c1 EXCEPT !.hollow_alpha = a1, !.is_filled = a1 > 12000]
        Timed(c1) ==
            IF c1.random_growth_behavior = "random_hollow"
            THEN Hollow(c1, IF Abs(c1.random_target_alpha - c1.hollow_alpha) > 200
                            THEN c1.hollow_alpha
                                 + ((c1.random_target_alpha - c1.hollow_alpha) * 8) \div 100
                            ELSE c1.random_target_alpha)
            ELSE c1
    IN Timed(IF c.behavior_timer + 1 >= c.behavior_interval
             THEN [c EXCEPT !.behavior_timer = 0,
                            !.behavior_interval = Pick(BehaviorIntervals, r),
                            !.random_target_alpha =
                                IF c.random_growth_behavior = "random_hollow"
                                THEN Pick(RandomTargetAlphas, r)
                                ELSE c.random_target_alpha]
             ELSE [c EXCEPT !.behavior_timer = c.behavior_timer + 1])

ResetCooldownDurations == <<120, 240, 360>>

\* the cooldown counted down wherever the cursor is
CooldownCountsAnywhere(d1000, trigger) == TRUE

\* line 547: distance_to_mouse >= expand_trigger_distance * 1.2
CooldownCounts(d1000, trigger) == d1000 * 10 >= trigger * 12

\* _handle_expanding_hexagon, dist in pixels
ExpandingHexagon(c, dist, r) ==
    LET trigger == 120 * c.scale_factor          \* 1/1000 pixel
        d1000 == dist * 1000
        fast == c.expansion_type = "fast"
    IN IF d1000 < trigger /\ c.expansion_phase = "expanding"
       THEN LET pf == Max(0, 1000 - (d1000 * 1000) \div trigger)
                rate == IF fast THEN (c.expansion_speed * (1000 + pf * 3)) \div 1000
                        ELSE (c.expansion_speed * (2000 + pf * 3)) \div 2000
                p1 == c.expansion_progress + rate
                done == p1 >= 1000000
                p2 == IF done THEN 1000000 ELSE p1
            IN [c EXCEPT !.expansion_progress = p2,
                         !.expansion_phase = IF done THEN "hollowing" ELSE "expanding",
                         !.hollow_timer = IF done THEN 0 ELSE c.hollow_timer,
                         !.scale_factor = 1000 + ((c.max_expansion - 1000) * p2) \div 1000000]
       ELSE IF c.expansion_phase = "hollowing"
       THEN LET rate == IF fast THEN c.hollow_speed * 2 ELSE (c.hollow_speed * 7) \div 10
                t1 == c.hollow_timer + rate
                done == t1 >= 1000000
                t2 == IF done THEN 1000000 ELSE t1
                a == ((255 * (1000000 - t2)) \div 1000000) * 100
            IN [c EXCEPT !.hollow_timer = t2,
                         !.expansion_phase = IF done THEN "hollow_cooldown" ELSE "hollowing",
                         !.reset_cooldown = IF done THEN c.reset_cooldown_duration
                                            ELSE c.reset_cooldown,
                         !.hollow_alpha = a,
                         !.is_filled = a > 5000]
       ELSE IF c.expansion_phase = "hollow_cooldown"
       THEN LET c1 == IF CooldownCounts(d1000, trigger)
                      THEN IF c.reset_cooldown - 1 <= 0
                           THEN [c EXCEPT !.reset_cooldown = c.reset_cooldown - 1,
                                          !.expansion_phase = "expanding",
                                          !.expansion_progress = 0,
                                          !.scale_factor = 1000,
                                          !.reset_cooldown_duration =
                                              Pick(ResetCooldownDurations, r)]
                           ELSE [c EXCEPT !.reset_cooldown = c.reset_cooldown - 1]
                      ELSE [c EXCEPT !.reset_cooldown = c.reset_cooldown_duration]
            IN [c1 EXCEPT !.hollow_alpha = 3000, !.is_filled = FALSE]
       ELSE IF d1000 * 10 >= trigger * 15 /\ c.expansion_phase = "expanding"
               /\ c.expansion_progress < 300000
       THEN LET p1 == c.expansion_progress - c.expansion_speed \div 2
            IN IF p1 <= 0
               THEN [c EXCEPT !.expansion_progress = 0, !.scale_factor = 1000]
               ELSE [c EXCEPT !.expansion_progress = p1]
       ELSE c

\* final_threshold of _update_hexagon_filled_state, in 1/100 alpha unit
FilledThreshold(d, rn) ==
    LET reduction == CASE d = "EASY" -> -20 [] d = "MEDIUM" -> 0 [] d = "HARD" -> 20
                       [] OTHER -> 40
    IN Max(160, 200 - reduction + Clamp(0, (rn - 8) * 2, 25)) * 100

\* the filled flag left as the random-hollow and expansion helpers set it
KeepFilledState(c, d) == c

\* _update_hexagon_filled_state
UpdateHexagonFilledState(c, d) ==
    [c EXCEPT !.is_filled = c.hollow_alpha > FilledThreshold(d, c.round_num)]

\* _update_hexagon_behavior
UpdateHexagonBehavior(c, mouse, r, d) ==
    LET dist == Abs(c.x - mouse)
        Expanded(c3) ==
            UpdateHexagonFilledState(
                IF c3.is_expanding_hexagon THEN ExpandingHexagon(c3, dist, r) ELSE c3, d)
        Grown(c2) == Expanded(HexagonRandomBehavior(c2, r))
        Smoothed(c1, pf) ==
            Grown(IF c1.is_growing_hexagon
                  THEN [c1 EXCEPT !.growth_multiplier = HexagonGrowth(c1, pf, d)]
                  ELSE c1)
        Targeted(pf, target) ==
            Smoothed([c EXCEPT !.target_alpha = target,
                               !.hollow_alpha = SmoothAlpha(c, target, d)], pf)
        Near(pf) == Targeted(pf, TargetAlpha(pf, d, c.round_num))
    IN Near(ProximityFactor(c, dist, d))

\* _handle_hexagon_movement: drift, then keep the hexagon radius + 5 inside the screen
HexagonMovement(c, r) ==
    LET x1 == c.x + Pick(Drifts, r)
        buffer == RadiusPx(c) + 5
    IN IF x1 - buffer < 0 THEN [c EXCEPT !.x = buffer]
       ELSE IF x1 + buffer > ScreenWidth THEN [c EXCEPT !.x = ScreenWidth - buffer]
       ELSE [c EXCEPT !.x = x1]

(***************************************************************************)
(* CURSOR_GRABBER: _handle_cursor_grabber_movement.  t is get_ticks() of   *)
(* the frame, cs the live collection the grabber holds a reference to.     *)
(***************************************************************************)
Sign(n) == IF n > 0 THEN 1 ELSE IF n < 0 THEN -1 ELSE 0

RetryWaitTimes == <<1000, 2000, 3000>>
PassiveWaitTimes == <<2000, 3500, 5000>>

\* the coordination left out: no other grabber is ever seen
OtherGrabberNeverActive(c, cs) == FALSE

\* lines 697-706
OtherGrabberActive(c, cs) ==
    \E k \in 1 .. Len(cs) :
        /\ cs[k].id # c.id
        /\ cs[k].type = "CURSOR_GRABBER"
        /\ (cs[k].is_grabbing \/ (cs[k].is_stalking /\ cs[k].will_attack))

\* the attack given up when the cursor is out of range
WindUpOutOfRangeGiveUp(c) ==
    [c EXCEPT !.pre_grab_start_time = 0, !.is_stalking = FALSE, !.will_attack = FALSE]

\* the wind-up timer surviving a tick with the cursor out of range
WindUpOutOfRangeKeep(c) == c

\* lines 753-756
WindUpOutOfRange(c) == [c EXCEPT !.pre_grab_start_time = 0]

\* lines 732-756
WindUp(c, dist, t) ==
    IF dist <= GrabDistance
    THEN IF c.pre_grab_start_time = 0
         THEN [c EXCEPT !.pre_grab_start_time = t]
         ELSE IF t - c.pre_grab_start_time >= c.pre_grab_delay
         THEN [c EXCEPT !.is_grabbing = TRUE, !.grab_start_time = t,
                        !.pre_grab_start_time = 0]
         ELSE c
    ELSE WindUpOutOfRange(c)

\* position update shared by the not-grabbing branches (lines 800-812)
GrabberMove(c, step) ==
    LET x1 == c.x + step
    IN IF x1 <= RadiusPx(c) \/ x1 >= ScreenWidth - RadiusPx(c)
       THEN [c EXCEPT !.x = Max(RadiusPx(c), Min(ScreenWidth - RadiusPx(c), x1))]
       ELSE [c EXCEPT !.x = x1]

\* the release leaving the entity a cursor grabber
ReleaseGrabKeepType(c) == [c EXCEPT !.is_grabbing = FALSE]

\* lines 789-797: the grab is over, the entity becomes a basic one
ReleaseGrab(c) == [c EXCEPT !.is_grabbing = FALSE, !.type = "NORMAL", !.points = 10]

CursorGrabberMovement(c, cs, mouse, t, r) ==
    LET dx == mouse - c.x
        dist == Abs(dx)
    IN IF ~c.is_grabbing
       THEN LET c1 == IF c.wait_start_time = 0 THEN [c EXCEPT !.wait_start_time = t] ELSE c
                c2 == IF ~c1.is_stalking /\ t - c1.wait_start_time < c1.wait_time
                      THEN GrabberMove(ApplyMovementPatternBehavior(c1, r), Pick(Drifts, r))
                      ELSE IF ~c1.is_stalking
                      THEN IF OtherGrabberActive(c1, cs)
                           THEN GrabberMove([c1 EXCEPT !.wait_time = Pick(RetryWaitTimes, r),
                                                       !.wait_start_time = t], 0)
                           ELSE IF r % 3 # 2          \* random.random() < 0.7
                           THEN GrabberMove([c1 EXCEPT !.is_stalking = TRUE,
                                                       !.stalk_start_time = t,
                                                       !.will_attack = TRUE], 0)
                           ELSE GrabberMove([c1 EXCEPT !.stalk_start_time = t,
                                                       !.will_attack = FALSE,
                                                       !.wait_time = Pick(PassiveWaitTimes, r),
                                                       !.wait_start_time = t], 0)
                      ELSE IF c1.is_stalking /\ c1.will_attack
                      THEN LET w == WindUp(c1, dist, t)
                           IN IF w.is_grabbing THEN w
                              ELSE GrabberMove(w, Sign(dx) * Min(dist, Abs(Pick(Drifts, r))))
                      ELSE GrabberMove(c1, 0)
            IN c2
       ELSE LET x1 == Clamp(RadiusPx(c) + 20, c.x + Pick(Drifts, r),
                            ScreenWidth - RadiusPx(c) - 20)
                c1 == [c EXCEPT !.x = x1, !.cursor_target_x = x1]
            IN IF t - c.grab_start_time >= c.grab_duration
               THEN GrabberMove(ReleaseGrab(c1), 0)
               ELSE c1

(***************************************************************************)
(* SNAKE: _handle_snake_movement, head and segment chain.                  *)
(***************************************************************************)
SnakeMargin == 30

\* lines 1023-1041: every segment is pulled toward the previous position of its predecessor
RECURSIVE FollowSegments(_, _, _)
FollowSegments(segs, i, prev) ==
    IF i > Len(segs) THEN segs
    ELSE LET cur == segs[i]
             dist == Abs(prev - cur)
             moved == IF dist > SnakeSpacing
                      THEN cur + Sign(prev - cur) * (dist - SnakeSpacing)
                      ELSE cur
         IN FollowSegments([segs EXCEPT ![i] = moved], i + 1, cur)

PanicDetectionRange == 80     \* panic_detection_range = 80 * scale_factor
BaseDetectionRange == 180     \* base_detection_range = 180 * scale_factor

\* a boost that the cursor can start again while the cooldown runs
UpdateBoostSystemNoCooldown(c, min_distance_to_mouse, r) ==
    IF c.type # "SNAKE" THEN c
    ELSE IF c.speed_boost_timer > 0
    THEN IF c.speed_boost_timer - 1 <= 0
         THEN [c EXCEPT !.speed_boost_cooldown_duration =
                            (Pick(<<2000, 4000, 6000>>, r) * TargetFps) \div 1000,
                        !.speed_boost_cooldown_timer =
                            (Pick(<<2000, 4000, 6000>>, r) * TargetFps) \div 1000,
                        !.speed_boost_timer = 0,
                        !.speed_boost_duration = 0]
         ELSE [c EXCEPT !.speed_boost_timer = c.speed_boost_timer - 1]
    ELSE IF min_distance_to_mouse * 1000 < PanicDetectionRange * c.scale_factor
    THEN [c EXCEPT !.speed_boost_duration =
                       (Pick(<<1000, 2000, 3000>>, r) * TargetFps) \div 1000,
                   !.speed_boost_timer =
                       (Pick(<<1000, 2000, 3000>>, r) * TargetFps) \div 1000,
                   !.speed_boost_cooldown_timer = 0,
                   !.speed_boost_cooldown_duration = 0]
    ELSE IF c.speed_boost_cooldown_timer > 0
    THEN [c EXCEPT !.speed_boost_cooldown_timer = c.speed_boost_cooldown_timer - 1]
    ELSE c

\* lines 818-831: the distance from the cursor to the nearest of the head and,
\* while a segment is alive, the segments
MinDistanceToMouse(c, mouse) ==
    LET ds == {Abs(c.x - mouse)} \cup
              (IF Len(c.segments) - c.segments_killed > 0
               THEN {Abs(c.segments[i] - mouse) : i \in 1 .. Len(c.segments)}
               ELSE {})
    IN CHOOSE d \in ds : \A e \in ds : d <= e

\* Circle.update_boost_system with _start_boost_cooldown and _start_boost_period;
\* random.uniform(2.0, 6.0) and random.uniform(1.0, 3.0) are drawn in milliseconds
UpdateBoostSystem(c, min_distance_to_mouse, r) ==
    IF c.type # "SNAKE" THEN c
    ELSE IF c.speed_boost_timer > 0
    THEN IF c.speed_boost_timer - 1 <= 0
         THEN [c EXCEPT !.speed_boost_cooldown_duration =
                            (Pick(<<2000, 4000, 6000>>, r) * TargetFps) \div 1000,
                        !.speed_boost_cooldown_timer =
                            (Pick(<<2000, 4000, 6000>>, r) * TargetFps) \div 1000,
                        !.speed_boost_timer = 0,
                        !.speed_boost_duration = 0]
         ELSE [c EXCEPT !.speed_boost_timer = c.speed_boost_timer - 1]
    ELSE IF c.speed_boost_cooldown_timer > 0
    THEN [c EXCEPT !.speed_boost_cooldown_timer = c.speed_boost_cooldown_timer - 1]
    ELSE IF min_distance_to_mouse * 1000 < PanicDetectionRange * c.scale_factor
    THEN [c EXCEPT !.speed_boost_duration =
                       (Pick(<<1000, 2000, 3000>>, r) * TargetFps) \div 1000,
                   !.speed_boost_timer =
                       (Pick(<<1000, 2000, 3000>>, r) * TargetFps) \div 1000,
                   !.speed_boost_cooldown_timer = 0,
                   !.speed_boost_cooldown_duration = 0]
    ELSE c

\* _handle_snake_movement_patterns: the timers and flags of the heading modes
\* (the heading itself is chosen in SnakeMovement).  The draws of one call:
\* r % 3 = 1 is random.random() < 0.004 (circle mode starts), r % 3 = 2 is the
\* following random.random() < 0.005 (zigzag mode starts); a circle ends early
\* (random.random() < 0.005) and is followed by an erratic burst
\* (random.random() < 0.3) when r % 3 = 2, a zigzag ends (random.random() <
\* 0.008) when r % 3 = 1; mode_roll is below 0.15 when r \div 3 = 0 and in
\* [0.15, 0.25) when r \div 3 = 1.
HandleSnakeMovementPatterns(c, r) ==
    LET timed == [c EXCEPT !.turn_timer = c.turn_timer + 1,
                           !.erratic_mode_timer =
                               IF c.erratic_mode_timer > 0
                               THEN c.erratic_mode_timer - 1 ELSE c.erratic_mode_timer,
                           !.zigzag_timer =
                               IF c.zigzag_mode THEN c.zigzag_timer + 1 ELSE c.zigzag_timer]
        Started(m) ==
            IF ~m.circle_mode /\ ~m.zigzag_mode /\ r % 3 = 1
            THEN [m EXCEPT !.circle_mode = TRUE, !.circle_timer = 0,
                           !.circle_duration = Pick(<<120, 180, 240>>, r)]
            ELSE IF ~m.circle_mode /\ ~m.zigzag_mode /\ r % 3 = 2
            THEN [m EXCEPT !.zigzag_mode = TRUE, !.zigzag_timer = 0]
            ELSE m
        Executed(m) ==
            IF m.circle_mode
            THEN IF m.circle_timer + 1 >= m.circle_duration \/ r % 3 = 2
                 THEN [m EXCEPT !.circle_mode = FALSE, !.circle_timer = 0,
                                !.erratic_mode_timer =
                                    IF r % 3 = 2 THEN Pick(<<60, 90, 120>>, r)
                                    ELSE m.erratic_mode_timer]
                 ELSE [m EXCEPT !.circle_timer = m.circle_timer + 1]
            ELSE IF m.zigzag_mode
            THEN IF r % 3 = 1
                 THEN [m EXCEPT !.zigzag_mode = FALSE, !.zigzag_timer = 0]
                 ELSE m
            ELSE IF m.erratic_mode_timer > 0
            THEN m
            ELSE IF m.turn_timer >= m.turn_interval
            THEN [m EXCEPT !.turn_timer = 0,
                           !.turn_interval = Pick(<<30, 60, 90>>, r),
                           !.erratic_mode_timer =
                               IF r \div 3 = 0 THEN Pick(<<60, 90, 120>>, r)
                               ELSE m.erratic_mode_timer,
                           !.zigzag_mode = (r \div 3 = 1),
                           !.zigzag_timer = IF r \div 3 = 1 THEN 0 ELSE m.zigzag_timer]
            ELSE m
    IN Executed(Started(timed))

\* sum(movement_distances[-10:])
RECURSIVE SumSeq(_)
SumSeq(q) == IF q = << >> THEN 0 ELSE Head(q) + SumSeq(Tail(q))

\* _handle_snake_movement.  On the line a heading is +1 or -1: the frame keeps
\* it or reverses it (r % 3 = 2), whichever of corner escape, cursor avoidance
\* and the heading modes computed it; two headings on the line never differ by
\* an angle (acos(abs(dot_product)) = 0), so no movement is erratic.
SnakeMovement(c, mouse, r) ==
    LET min_distance_to_mouse == MinDistanceToMouse(c, mouse)
        \* current_speed in tenths of speed (MoveStep pixels per frame)
        Speed(b) == IF b.speed_boost_timer > 0 THEN 18 ELSE 10
        Tracked(b) ==
            [b EXCEPT !.position_history =
                          IF b.position_history = << >> THEN << b.x >>
                          ELSE << b.position_history[Len(b.position_history)], b.x >>,
                      !.movement_distances =
                          IF b.position_history = << >> THEN b.movement_distances
                          ELSE LET md == Append(b.movement_distances,
                                                Abs(b.x - b.position_history[Len(b.position_history)]))
                               IN IF Len(md) > 10 THEN Tail(md) ELSE md]
        is_cornered(b) ==
            /\ Len(b.movement_distances) >= 10
            /\ SumSeq(b.movement_distances) * 10 < 3 * MoveStep * Speed(b)
        Stuck(b) ==
            IF Len(b.movement_distances) < 10 THEN b
            ELSE IF is_cornered(b)
            THEN [b EXCEPT !.stuck_threshold_timer = b.stuck_threshold_timer + 1]
            ELSE [b EXCEPT !.stuck_threshold_timer = Max(0, b.stuck_threshold_timer - 1)]
        \* [c, active]: the corner escape timers
        Escape(b) ==
            LET active == is_cornered(b) /\ b.stuck_threshold_timer >= 3
                cet == IF active THEN b.corner_escape_timer + 1
                       ELSE Max(0, b.corner_escape_timer - 1)
                ignore == IF b.escape_ignore_cursor_timer > 0
                          THEN b.escape_ignore_cursor_timer - 1 ELSE 0
            IN [ c |-> [b EXCEPT !.corner_escape_timer =
                                     IF active /\ cet > 20 THEN 0 ELSE cet,
                                 !.stuck_threshold_timer =
                                     IF active /\ cet > 20 THEN 0 ELSE b.stuck_threshold_timer,
                                 !.escape_ignore_cursor_timer =
                                     IF active /\ cet = 1 THEN 120 ELSE ignore],
                 active |-> active,
                 avoids |-> /\ ignore = 0
                            /\ min_distance_to_mouse * 1000 < BaseDetectionRange * b.scale_factor
                            /\ min_distance_to_mouse > 0 ]
        Headed(e) ==
            IF e.active \/ e.avoids THEN e.c ELSE HandleSnakeMovementPatterns(e.c, r)
        Moved(b) ==
            LET dir == IF r % 3 = 2 THEN -b.direction_x ELSE b.direction_x
                x1 == b.x + dir * ((Abs(Pick(Drifts, r)) * Speed(b)) \div 10)
                bounced == IF x1 < SnakeMargin
                           THEN [b EXCEPT !.x = SnakeMargin, !.direction_x = 1]
                           ELSE IF x1 > ScreenWidth - SnakeMargin
                           THEN [b EXCEPT !.x = ScreenWidth - SnakeMargin, !.direction_x = -1]
                           ELSE [b EXCEPT !.x = x1, !.direction_x = dir]
            IN [bounced EXCEPT !.segments = FollowSegments(b.segments, 1, b.x)]
    IN Moved(Headed(Escape(Stuck(Tracked(UpdateBoostSystem(c, min_distance_to_mouse, r))))))

(***************************************************************************)
(* update_circle: returns the circle, the return value (remove) and        *)
(* whether a self-destruct exploded or a teleport happened in this call.   *)
(***************************************************************************)
ApplyMovementPatterns(c, cs, mouse, t, r) ==
    CASE c.type = "HEXAGON" -> HexagonMovement(c, r)
      [] c.type = "CURSOR_GRABBER" -> CursorGrabberMovement(c, cs, mouse, t, r)
      [] c.type = "SNAKE" -> SnakeMovement(c, mouse, r)
      [] OTHER -> StandardMovement(ApplyMovementPatternBehavior(c, r), r)

UpdateCircle(c, cs, tris, mouse, t, r, d) ==
    LET \* line 372 and _apply_movement_patterns
        Moved(c2, teleported, fired) ==
            [c |-> ApplyMovementPatterns(
                       [c2 EXCEPT !.radius = (c2.base_radius * c2.scale_factor) \div 1000],
                       cs, mouse, t, r),
             remove |-> FALSE, exploded |-> FALSE, teleported |-> teleported,
             fired |-> fired]
        AfterSelfDestruct(sd, teleported, fired) ==
            IF sd.exploded
            THEN [c |-> sd.c, remove |-> TRUE, exploded |-> TRUE, teleported |-> FALSE,
                  fired |-> fired]
            ELSE Moved(sd.c, teleported, fired)
        AfterSpecial(sp) ==
            AfterSelfDestruct(IF sp.c.type = "SUPERTANK"
                              THEN UpdateSelfDestruct(UpdateRegeneration(sp.c, t))
                              ELSE [c |-> sp.c, exploded |-> FALSE],
                              sp.teleported, sp.fired)
        Dying(u) == [c |-> u.c, remove |-> u.remove, exploded |-> FALSE, teleported |-> FALSE,
                     fired |-> << >>]
        Teleporting(tp) == [c |-> tp.c, teleported |-> tp.teleported, fired |-> << >>]
        Shooter(sh) == [c |-> sh.c, teleported |-> FALSE, fired |-> sh.fired]
    IN IF c.dying
       THEN Dying(UpdateDying(c))
       ELSE AfterSpecial(IF c.type = "TELEPORTING"
                         THEN Teleporting(UpdateTeleporting(c, mouse, r, d))
                         ELSE IF c.type = "SHOOTER"
                         THEN Shooter(UpdateShooter(c, mouse, t, r, d, tris))
                         ELSE IF c.type = "HEXAGON"
                         THEN [c |-> UpdateHexagonBehavior(c, mouse, r, d),
                               teleported |-> FALSE, fired |-> << >>]
                         ELSE [c |-> c, teleported |-> FALSE, fired |-> << >>])

(***************************************************************************)
(* Game._handle_all_circle_collisions: positions only.                     *)
(***************************************************************************)
ClampToScreen(c) == [c EXCEPT !.x = Clamp(RadiusPx(c), c.x, ScreenWidth - RadiusPx(c))]

\* dying entities separated like any other
SkipNoPair(c1, c2) == FALSE

\* "Skip if either circle is dying"
SkipPair(c1, c2) == c1.dying \/ c2.dying

\* the body of the pair loop
CollidePair(cs, i, j) ==
    LET c1 == cs[i]
        c2 == cs[j]
        dx == c2.x - c1.x
        dist == Abs(dx)
        overlap == c1.radius + c2.radius - dist * 1000
        sep == IF overlap > 0 THEN overlap \div 2000 ELSE 0
    IN IF SkipPair(c1, c2) \/ dist = 0 THEN cs
       ELSE [cs EXCEPT ![i] = ClampToScreen([c1 EXCEPT !.x = c1.x - Sign(dx) * sep]),
                       ![j] = ClampToScreen([c2 EXCEPT !.x = c2.x + Sign(dx) * sep])]

RECURSIVE HandleAllCircleCollisions(_, _, _)
HandleAllCircleCollisions(cs, i, j) ==
    IF i >= Len(cs) THEN cs
    ELSE IF j > Len(cs) THEN HandleAllCircleCollisions(cs, i + 1, i + 2)
    ELSE HandleAllCircleCollisions(CollidePair(cs, i, j), i, j + 1)

(***************************************************************************)
(* Game.spawn_circle and Game.get_circle_type_for_round, for the entity    *)
(* types the model carries.                                                *)
(***************************************************************************)
AvailableTypes(rn) ==
    <<"NORMAL">>
    \o (IF rn >= 3 THEN <<"SMALL">> ELSE << >>)
    \o (IF rn >= 5 THEN <<"TELEPORTING">> ELSE << >>)
    \o (IF rn >= 7 THEN <<"TANK">> ELSE << >>)
    \o (IF rn >= 8 THEN <<"HEXAGON">> ELSE << >>)
    \o (IF rn >= 9 THEN <<"SNAKE">> ELSE << >>)
    \o (IF rn >= 10 THEN <<"CURSOR_GRABBER">> ELSE << >>)
    \o (IF rn >= 12 THEN <<"SHOOTER">> ELSE << >>)
    \o (IF rn >= 14 THEN <<"SUPERTANK">> ELSE << >>)

\* the random draws of one Circle constructor call
Draws(r) ==
    [ initial_delay |-> Pick(InitialDelays, r),
      pattern |-> r,
      turn_interval |-> Pick(<<30, 60, 90>>, r),
      base_health |-> Pick(<<20, 25, 30>>, r),
      is_growing_hexagon |-> Pick(<<TRUE, FALSE>>, r),
      is_expanding_hexagon |-> Pick(<<FALSE, TRUE>>, r),
      expansion_type |-> Pick(<<"fast", "slow">>, r \div 2),
      thin_outline |-> Pick(<<FALSE, TRUE>>, r \div 2),
      expansion_speed |->
          IF Pick(<<"fast", "slow">>, r \div 2) = "fast" THEN 20000 ELSE 8000,
      max_expansion |->
          IF Pick(<<"fast", "slow">>, r \div 2) = "fast" THEN 2500 ELSE 1400,
      hollow_speed |->
          IF Pick(<<"fast", "slow">>, r \div 2) = "fast" THEN 150000 ELSE 50000,
      reset_cooldown_duration |-> Pick(ResetCooldownDurations, r),
      random_growth_behavior |->
          Pick(<<"normal", "random_hollow", "random_pulse", "random_size">>, r),
      behavior_interval |-> Pick(BehaviorIntervals, r),
      grab_duration |-> Pick(<<5000, 7500, 10000>>, r),
      wait_time |-> Pick(<<3000, 5500, 8000>>, r),
      snake_length |-> Pick(<<3, 4, 14>>, r),
      direction_x |-> Pick(<<1, -1>>, r) ]

SpawnXs == <<100, 600, 1100>>

\* the first candidate position farther than 150 pixels from the mouse
SpawnX(mouse, r) ==
    IF Abs(Pick(SpawnXs, r) - mouse) > 150 THEN Pick(SpawnXs, r)
    ELSE IF Abs(Pick(SpawnXs, r + 1) - mouse) > 150 THEN Pick(SpawnXs, r + 1)
    ELSE Pick(SpawnXs, r + 2)

SpawnType(cs, rn, r) ==
    LET type == Pick(AvailableTypes(rn), r)
        grabbers == Cardinality({k \in 1 .. Len(cs) : cs[k].type = "CURSOR_GRABBER"})
    IN IF type = "CURSOR_GRABBER" /\ grabbers >= 2
       THEN Pick(<<"NORMAL", "SMALL">> \o (IF rn >= 5 THEN <<"TELEPORTING">> ELSE << >>), r)
       ELSE type

SpawnCircle(cs, id, mouse, r, d, rn, st) ==
    LET type == SpawnType(cs, rn, r)
        sv == IF rn >= 8 /\ type # "SMALL" THEN Pick(<<1000, 800, 1200>>, r) ELSE 1000
        maxgen == IF type = "TELEPORTING" THEN Pick(<<1, 2>>, r) ELSE 0
    IN Circle(id, SpawnX(mouse, r), type, sv, 0, maxgen, d, rn, st, Draws(r))

\* circles_to_spawn of Game.next_round
NextRoundSpawns(d, rn) ==
    IF rn > 20
    THEN CASE d = "EASY" -> 20 [] d = "MEDIUM" -> 23 [] d = "HARD" -> 27 [] OTHER -> 35
    ELSE rn

(***************************************************************************)
(* Game.update, PLAYING and SANDBOX branches (endless mode, not paused).   *)
(***************************************************************************)
IndexOf(cs, id) == CHOOSE k \in 1 .. Len(cs) : cs[k].id = id

RemoveAt(cs, k) == SubSeq(cs, 1, k - 1) \o SubSeq(cs, k + 1, Len(cs))

\* observer fields, computed from the state the circle had before its update
Observe(pre, post, mouse, t, d) ==
    IF pre.dying THEN post
    ELSE IF pre.type = "TELEPORTING"
    THEN LET far == Abs(pre.x - mouse) > ProximityTeleportRange(d)
         IN [post EXCEPT !.obs_far = far, !.obs_reentry = pre.obs_far /\ ~far]
    ELSE IF pre.type = "SUPERTANK"
    THEN [post EXCEPT !.obs_regenerated = pre.obs_regenerated \/ post.health > pre.health]
    ELSE IF pre.type = "CURSOR_GRABBER" /\ ~pre.is_grabbing /\ pre.is_stalking /\ pre.will_attack
    THEN [post EXCEPT !.obs_in_range_since =
                          IF Abs(mouse - pre.x) <= GrabDistance
                          THEN (IF pre.obs_in_range_since = 0 THEN t ELSE pre.obs_in_range_since)
                          ELSE 0]
    ELSE [post EXCEPT !.obs_in_range_since = 0]

\* for circle in self.circles[:]: if update_circle(...): self.circles.remove(circle)
RECURSIVE UpdateLoop(_, _, _, _, _, _, _, _)
UpdateLoop(cs, snapshot, k, mouse, t, r, d, acc) ==
    LET Body(idx, res) ==
            UpdateLoop(IF res.remove THEN RemoveAt(cs, idx)
                       ELSE [cs EXCEPT ![idx] = Observe(cs[idx], res.c, mouse, t, d)],
                       snapshot, k + 1, mouse, t, r, d,
                       [ exploded |-> acc.exploded + (IF res.exploded THEN 1 ELSE 0),
                         teleported |-> acc.teleported \cup
                                          (IF res.teleported THEN {res.c.id} ELSE {}),
                         removed |-> acc.removed \cup (IF res.remove THEN {res.c.id} ELSE {}),
                         triangles |-> acc.triangles \o res.fired ])
        At(idx) == Body(idx, UpdateCircle(cs[idx], cs, acc.triangles, mouse, t,
                                          r + (k - 1), d))
    IN IF k > Len(snapshot) THEN [cs |-> cs, acc |-> acc]
       ELSE At(IndexOf(cs, snapshot[k].id))

NoneAlive(cs) == \A k \in 1 .. Len(cs) : cs[k].dying

GrabbingIndices(cs) ==
    {k \in 1 .. Len(cs) : cs[k].type = "CURSOR_GRABBER" /\ cs[k].is_grabbing
                          /\ cs[k].cursor_target_x # -1}

FirstIndex(S) == CHOOSE k \in S : \A m \in S : k <= m

\* the separation pass run before the entity updates
SeparateThenUpdate(cs, tris, mouse, t, r, d) ==
    UpdateLoop(HandleAllCircleCollisions(cs, 1, 2), HandleAllCircleCollisions(cs, 1, 2),
               1, mouse, t, r, d,
               [exploded |-> 0, teleported |-> {}, removed |-> {}, triangles |-> tris])

\* lines 1284-1296: update_circle on every entity of the list, then one call of
\* _handle_all_circle_collisions
UpdateThenSeparate(cs, tris, mouse, t, r, d) ==
    LET Separated(loop) ==
            [cs |-> HandleAllCircleCollisions(loop.cs, 1, 2), acc |-> loop.acc]
    IN Separated(UpdateLoop(cs, cs, 1, mouse, t, r, d,
                            [exploded |-> 0, teleported |-> {}, removed |-> {},
                             triangles |-> tris]))

Update(real_mouse, t, r, hit) ==
    LET grabbed == GrabbingIndices(circles) # {}
        mouse == IF grabbed THEN circles[FirstIndex(GrabbingIndices(circles))].cursor_target_x
                 ELSE real_mouse
        \* lines 1298-1317: the projectiles and the hidden cursor
        TrianglesDone(tf) ==
            /\ triangles' = tf.tris
            /\ cursor_hidden' = (tf.hidden /\ ~(t - tf.start >= CursorHideDuration))
            /\ cursor_hide_start_time' = tf.start
        \* the end of the frame: round progression
        Finish(acc, cs2, spawns, cts1, lives2, next_round) ==
            /\ circles' = cs2
            /\ TrianglesDone(TrianglesLoop(acc.triangles, 1, mouse, t,
                                           [tris |-> << >>, hidden |-> cursor_hidden,
                                            start |-> cursor_hide_start_time]))
            /\ next_id' = IF spawns THEN next_id + 1 ELSE next_id
            /\ lives' = IF state = "SANDBOX" /\ hit
                        THEN (IF lives2 - 1 <= 0 THEN 1 ELSE lives2 - 1)
                        ELSE lives2
            /\ round_num' = IF next_round THEN round_num + 1 ELSE round_num
            /\ circles_to_spawn' = IF next_round
                                   THEN NextRoundSpawns(difficulty, round_num + 1)
                                   ELSE cts1
            /\ spawn_timer' = IF state # "PLAYING" THEN spawn_timer
                              ELSE IF next_round \/ spawns THEN 0
                              ELSE IF circles_to_spawn > 0 THEN spawn_timer + 1
                              ELSE spawn_timer
            /\ last_tick' = [mouse |-> mouse, teleported |-> acc.teleported,
                             removed |-> acc.removed,
                             exploded |-> acc.exploded, updated |-> TRUE]
            /\ UNCHANGED <<state, score>>
        Spawned(acc, cs2, spawns, cts1, lives2) ==
            Finish(acc, cs2, spawns, cts1, lives2,
                   state = "PLAYING" /\ cts1 = 0 /\ NoneAlive(cs2))
        \* spawning, after the collisions
        Collided(acc, cs1, spawns, lives1) ==
            Spawned(acc,
                    IF spawns
                    THEN Append(cs1, SpawnCircle(cs1, next_id, real_mouse, r, difficulty,
                                                 round_num, state))
                    ELSE cs1,
                    spawns,
                    IF spawns THEN circles_to_spawn - 1 ELSE circles_to_spawn,
                    lives1 - acc.exploded)
        Looped(loop, lives1) ==
            Collided(loop.acc, loop.cs,
                     state = "PLAYING" /\ circles_to_spawn > 0 /\ spawn_timer + 1 >= TargetFps,
                     lives1)
    IN /\ now' = t
       /\ cursor_is_grabbed' = grabbed
       /\ virtual_mouse_pos' = mouse
       /\ IF state = "PLAYING" /\ hit /\ lives - 1 <= 0
          THEN \* obstacle hit on the last life: GAME_OVER and return
               /\ lives' = lives - 1
               /\ state' = "GAME_OVER"
               /\ last_tick' = [mouse |-> mouse, teleported |-> {}, removed |-> {},
                                exploded |-> 0, updated |-> FALSE]
               /\ UNCHANGED <<circles, round_num, circles_to_spawn, spawn_timer, next_id, score,
                              triangles, cursor_hidden, cursor_hide_start_time>>
          ELSE Looped(UpdateThenSeparate(circles, triangles, mouse, t, r, difficulty),
                      IF state = "PLAYING" /\ hit THEN lives - 1 ELSE lives)

\* the point the cursor offsets are taken from: the oldest entity, or the
\* middle of the screen when there is none
Anchor == IF circles = << >> THEN ScreenWidth \div 2 ELSE circles[1].x

Tick ==
    /\ state \in {"PLAYING", "SANDBOX"}
    /\ \E dt \in frame_env.dts, off \in frame_env.mouse,
          r \in frame_env.rand, hit \in frame_env.hits :
          /\ now + dt <= frame_env.horizon
          /\ Update(Clamp(0, Anchor + off, ScreenWidth), now + dt, r, hit)
    /\ UNCHANGED <<difficulty, click_radius_helper, frame_env, last_click>>

(***************************************************************************)
(* Initial states.  A game is observed from the frame after its entities   *)
(* were constructed; each scenario fixes the game settings, the entities   *)
(* present and what the environment may do: the frame durations, the       *)
(* cursor offsets from the entities, the indices of the random draws,      *)
(* whether an obstacle can hit the cursor, the click offsets from the      *)
(* entities and the time until which the player clicks.                    *)
(***************************************************************************)
StartTime == 1000       \* get_ticks() when the observation starts (ms)
FrameMs == 167          \* duration of one frame (ms)
Far == 400              \* a cursor offset out of every proximity range

Env(dts, frames, mouse, rand, hits, clicks, click_frames) ==
    [dts |-> dts, horizon |-> StartTime + frames, mouse |-> mouse, rand |-> rand,
     hits |-> hits, clicks |-> clicks, click_until |-> StartTime + click_frames]

Game(st, d, rn, helper, cs, spawn, env) ==
    [state |-> st, difficulty |-> d, round_num |-> rn, helper |-> helper, circles |-> cs,
     circles_to_spawn |-> spawn, lives |-> IF st = "SANDBOX" THEN SandboxLives ELSE StartLives,
     env |-> env]

HexDraws(behavior, expanding, growing) ==
    [Draws(0) EXCEPT !.random_growth_behavior = behavior,
                     !.is_expanding_hexagon = expanding,
                     !.is_growing_hexagon = growing]

InitFrom(games) ==
    \E g \in games :
        /\ state = g.state
        /\ difficulty = g.difficulty
        /\ round_num = g.round_num
        /\ click_radius_helper = g.helper
        /\ circles = g.circles
        /\ score = 0
        /\ lives = g.lives
        /\ circles_to_spawn = g.circles_to_spawn
        /\ spawn_timer = 0
        /\ cursor_is_grabbed = FALSE
        /\ virtual_mouse_pos = 0
        /\ now = StartTime
        /\ next_id = Len(g.circles) + 1
        /\ triangles = << >>
        /\ cursor_hidden = FALSE
        /\ cursor_hide_start_time = 0
        /\ frame_env = g.env
        /\ last_tick = [mouse |-> 0, teleported |-> {}, removed |-> {},
                        exploded |-> 0, updated |-> FALSE]
        /\ last_click = [pos |-> 0, target |-> 0, removed |-> FALSE, children |-> 0]

Next == Tick \/ Click

\* clicks, regeneration and self-destruct; a game from its first round
DamageGames ==
    { \* a basic circle drifting along the top edge, next to the left corner
      Game("PLAYING", "EASY", 1, FALSE,
           << [Circle(1, 90, "NORMAL", 1000, 0, 0, "EASY", 1, "PLAYING",
                      [Draws(0) EXCEPT !.pattern = 2])
                  EXCEPT !.y = 40] >>,
           0, Env({FrameMs}, 5 * FrameMs, {Far}, {0, 2}, {FALSE}, {0}, 0)),
      \* a supertank clicked between pauses long enough to regenerate
      Game("PLAYING", "EASY", 14, FALSE,
           << Circle(1, 300, "SUPERTANK", 1000, 0, 0, "EASY", 14, "PLAYING", Draws(0)) >>,
           0, Env({1500}, 4 * 1500, {Far}, {0}, {FALSE}, {0}, 4 * 1500)),
      \* a supertank clicked down, then left to its countdown; a tank and a basic circle
      Game("PLAYING", "NIGHTMARE", 14, FALSE,
           << Circle(1, 200, "NORMAL", 1000, 0, 0, "NIGHTMARE", 14, "PLAYING", Draws(0)),
              Circle(2, 500, "TANK", 1000, 0, 0, "NIGHTMARE", 14, "PLAYING", Draws(0)),
              Circle(3, 900, "SUPERTANK", 1000, 0, 0, "NIGHTMARE", 14, "PLAYING", Draws(0)) >>,
           0, Env({FrameMs}, (3 * TargetFps + 2) * FrameMs, {Far}, {0}, {FALSE}, {0}, 0)),
      \* a hexagon and a small circle in the sandbox
      Game("SANDBOX", "MEDIUM", SandboxRound, TRUE,
           << Circle(1, 300, "HEXAGON", 1000, 0, 0, "MEDIUM", SandboxRound, "SANDBOX",
                     HexDraws("normal", FALSE, FALSE)),
              Circle(2, 800, "SMALL", 1000, 0, 0, "MEDIUM", SandboxRound, "SANDBOX", Draws(0)) >>,
           0, Env({FrameMs}, 4 * FrameMs, {0}, {0}, {FALSE, TRUE}, {0, 40}, 4 * FrameMs)),
      \* a game from its first round: spawning, rounds, obstacles
      Game("PLAYING", "HARD", 1, FALSE, << >>, 1,
           Env({FrameMs}, 14 * FrameMs, {Far}, Rand, {FALSE, TRUE}, {0}, 14 * FrameMs)),
      \* a supertank left to its countdown while obstacles can hit the cursor
      Game("PLAYING", "NIGHTMARE", 14, FALSE,
           << Circle(1, 600, "SUPERTANK", 1000, 0, 0, "NIGHTMARE", 14, "PLAYING", Draws(0)) >>,
           0, Env({FrameMs}, (3 * TargetFps + 2) * FrameMs, {Far}, {0}, {FALSE, TRUE}, {0}, 0)),
      \* one basic circle of every movement pattern, until the longest timer has run out
      Game("PLAYING", "MEDIUM", 12, FALSE,
           [p \in 1 .. 7 |->
               Circle(p, 160 * p - 60, "NORMAL", 1000, 0, 0, "MEDIUM", 12, "PLAYING",
                      [Draws(0) EXCEPT !.pattern = p - 1])],
           0, Env({FrameMs}, 61 * FrameMs, {Far}, {0}, {FALSE}, {0}, 0)) }

InitDamage == InitFrom(DamageGames)
SpecDamage == InitDamage /\ [][Next]_vars

\* split reproduction: forced in the sandbox, rolled in a game
SplitGames ==
    { \* forced splits: one generation allowed, and two allowed but the children too small
      Game("SANDBOX", "MEDIUM", SandboxRound, FALSE,
           << Circle(1, 300, "TELEPORTING", 1200, 0, 1, "MEDIUM", SandboxRound, "SANDBOX", Draws(0)),
              Circle(2, 800, "TELEPORTING", 1000, 0, 2, "MEDIUM", SandboxRound, "SANDBOX", Draws(0)) >>,
           0, Env({FrameMs}, FrameMs, {Far}, {0}, {FALSE}, {0}, 0)),
      \* forced splits down to the grandchildren
      Game("SANDBOX", "MEDIUM", SandboxRound, FALSE,
           << Circle(1, 800, "TELEPORTING", 1200, 0, 2, "MEDIUM", SandboxRound, "SANDBOX", Draws(1)) >>,
           0, Env({FrameMs}, FrameMs, {Far}, {0}, {FALSE}, {0}, FrameMs)),
      \* rolled splits in a game
      Game("PLAYING", "NIGHTMARE", 9, FALSE,
           << Circle(1, 600, "TELEPORTING", 1200, 0, 2, "NIGHTMARE", 9, "PLAYING", Draws(0)) >>,
           0, Env({FrameMs}, FrameMs, {Far}, {0, 1}, {FALSE}, {0}, 0)) }
    \cup
    \* the last round without the post-round-20 bonus and both ends of every
    \* band of it: a splitting parent, a grabber, and one entity still to spawn
    { Game("PLAYING", "MEDIUM", rn, FALSE,
           << Circle(1, 600, "TELEPORTING", 1200, 0, 1, "MEDIUM", rn, "PLAYING", Draws(0)),
              Circle(2, 100, "CURSOR_GRABBER", 1000, 0, 0, "MEDIUM", rn, "PLAYING", Draws(0)) >>,
           1, Env({FrameMs}, TargetFps * FrameMs, {Far}, {0, 1}, {FALSE}, {0}, 0))
      : rn \in {20, 21, 29, 30, 39, 40, 49, 50} }

InitSplit == InitFrom(SplitGames)
SpecSplit == InitSplit /\ [][Next]_vars

\* snakes, without and with the click radius helper
SnakeGames ==
    { Game("SANDBOX", "MEDIUM", SandboxRound, helper,
           << Circle(1, 500, "SNAKE", 1000, 0, 0, "MEDIUM", SandboxRound, "SANDBOX", Draws(0)) >>,
           0, Env({FrameMs}, 2 * FrameMs, {Far}, {0, 1}, {FALSE}, {-40, 0, 30}, 2 * FrameMs))
      : helper \in BOOLEAN }
    \cup
    \* a basic circle lying on the tail of a snake
    { Game("SANDBOX", "MEDIUM", SandboxRound, FALSE,
           << Circle(1, 500 - 3 * SnakeSpacing, "NORMAL", 1000, 0, 0, "MEDIUM", SandboxRound,
                     "SANDBOX", Draws(0)),
              Circle(2, 500, "SNAKE", 1000, 0, 0, "MEDIUM", SandboxRound, "SANDBOX", Draws(0)) >>,
           0, Env({FrameMs}, FrameMs, {Far}, {0}, {FALSE}, {0}, 0)),
      \* a snake with the cursor on its head or away from it, for a boost, its
      \* cooldown and the frames after it
      Game("SANDBOX", "MEDIUM", SandboxRound, FALSE,
           << Circle(1, 500, "SNAKE", 1000, 0, 0, "MEDIUM", SandboxRound, "SANDBOX", Draws(0)) >>,
           0, Env({FrameMs}, (3 * TargetFps + 3) * FrameMs, {0, Far}, {0}, {FALSE}, {0}, 0)),
      \* a snake left alone while its heading modes start and end
      Game("SANDBOX", "MEDIUM", SandboxRound, FALSE,
           << Circle(1, 500, "SNAKE", 1000, 0, 0, "MEDIUM", SandboxRound, "SANDBOX", Draws(0)) >>,
           0, Env({FrameMs}, 4 * FrameMs, {Far}, {1, 2}, {FALSE}, {0}, 0)) }

InitSnake == InitFrom(SnakeGames)
SpecSnake == InitSnake /\ [][Next]_vars

\* hexagons: proximity hollowing, the random-hollow trait, the expansion cycle
\* the entity after the frames of Game.update, cursor at mouse, that bring an
\* expanding hexagon to its cooldown
RECURSIVE UntilCooldown(_, _, _)
UntilCooldown(c, mouse, d) ==
    IF c.expansion_phase = "hollow_cooldown" THEN c
    ELSE UntilCooldown(UpdateCircle(c, << c >>, << >>, mouse, StartTime, 0, d).c, mouse, d)

HexagonGames ==
    { Game("PLAYING", "NIGHTMARE", 12, FALSE,
           << Circle(1, 600, "HEXAGON", 1000, 0, 0, "NIGHTMARE", 12, "PLAYING",
                     HexDraws("normal", FALSE, TRUE)) >>,
           0, Env({FrameMs}, 9 * FrameMs, {0, Far}, {0}, {FALSE}, {0}, 0)),
      Game("SANDBOX", "HARD", SandboxRound, FALSE,
           << Circle(1, 600, "HEXAGON", 1000, 0, 0, "HARD", SandboxRound, "SANDBOX",
                     HexDraws("normal", TRUE, FALSE)) >>,
           0, Env({FrameMs}, 30 * FrameMs, {0}, {0}, {FALSE}, {0}, 0)),
      \* an expanding hexagon, the cursor on it or far away: its first frames,
      \* and the frames after the cursor has stayed on it until the cooldown
      Game("SANDBOX", "EASY", SandboxRound, FALSE,
           << Circle(1, 600, "HEXAGON", 1000, 0, 0, "EASY", SandboxRound, "SANDBOX",
                     HexDraws("normal", TRUE, FALSE)) >>,
           0, Env({FrameMs}, 10 * FrameMs, {0, Far}, {0}, {FALSE}, {0}, 0)),
      Game("SANDBOX", "EASY", SandboxRound, FALSE,
           << UntilCooldown(Circle(1, 600, "HEXAGON", 1000, 0, 0, "EASY", SandboxRound,
                                   "SANDBOX", HexDraws("normal", TRUE, FALSE)),
                            600, "EASY") >>,
           0, Env({FrameMs}, 124 * FrameMs, {0, Far}, {0}, {FALSE}, {0}, 0)) }
    \cup
    { Game("PLAYING", "MEDIUM", 8, FALSE,
           << Circle(1, 600, "HEXAGON", 1000, 0, 0, "MEDIUM", 8, "PLAYING",
                     HexDraws("random_hollow", FALSE, FALSE)) >>,
           0, Env({FrameMs}, 75 * FrameMs, {Far}, {r}, {FALSE}, {0}, 0))
      : r \in {0, 3} }

InitHexagon == InitFrom(HexagonGames)
SpecHexagon == InitHexagon /\ [][Next]_vars

\* proximity teleport: the cursor comes and goes
TeleportGames ==
    { Game("PLAYING", "HARD", 6, FALSE,
           << Circle(1, 600, "TELEPORTING", 1000, 0, 1, "HARD", 6, "PLAYING", Draws(r)) >>,
           0, Env({FrameMs}, 14 * FrameMs, {0, Far}, {0}, {FALSE}, {0}, 0))
      : r \in {0, 1} }

InitTeleport == InitFrom(TeleportGames)
SpecTeleport == InitTeleport /\ [][Next]_vars

\* cursor grabbers: wait, stalk, wind-up, grab, release
GrabberGames ==
    { Game("PLAYING", "MEDIUM", 10, FALSE,
           << Circle(1, 300, "CURSOR_GRABBER", 1000, 0, 0, "MEDIUM", 10, "PLAYING", Draws(0)),
              Circle(2, 900, "CURSOR_GRABBER", 1000, 0, 0, "MEDIUM", 10, "PLAYING", Draws(0)) >>,
           0, Env({250, 3000}, 11000, {0, Far}, {0}, {FALSE}, {0}, 0)) }

InitGrabber == InitFrom(GrabberGames)
SpecGrabber == InitGrabber /\ [][Next]_vars

\* one cursor grabber through its whole cycle, clicked at in every frame
GrabClickGames ==
    { Game("PLAYING", "MEDIUM", 10, helper,
           << Circle(1, 600, "CURSOR_GRABBER", 1000, 0, 0, "MEDIUM", 10, "PLAYING", Draws(0)) >>,
           0, Env({1500}, 11 * 1500, {0, Far}, {0}, {FALSE}, {0, 40}, 11 * 1500))
      : helper \in BOOLEAN }

InitGrabClick == InitFrom(GrabClickGames)
SpecGrabClick == InitGrabClick /\ [][Next]_vars

\* shooters: spin-up, volley, invisibility, relocation; the cursor may stand in
\* the way of a projectile
ShooterGames ==
    { Game("PLAYING", "MEDIUM", 12, FALSE,
           << Circle(1, 600, "SHOOTER", 1000, 0, 0, "MEDIUM", 12, "PLAYING", Draws(0)) >>,
           0, Env({500}, 27 * 500, {0, -TriangleStep}, {0}, {FALSE}, {0}, 0)),
      \* the cursor where a projectile passes in the last second of its lifetime
      Game("PLAYING", "HARD", 12, FALSE,
           << Circle(1, 600, "SHOOTER", 1000, 0, 0, "HARD", 12, "PLAYING", Draws(0)) >>,
           0, Env({500}, 24 * 500, {0, -(TriangleStep + TriangleSize)}, {0}, {FALSE}, {0}, 0)) }
    \cup
    { Game("SANDBOX", "MEDIUM", SandboxRound, helper,
           << Circle(1, 600, "SHOOTER", 1000, 0, 0, "MEDIUM", SandboxRound, "SANDBOX",
                     Draws(0)) >>,
           0, Env({500}, 9 * 500, {0, Far}, {0}, {FALSE}, {0, 40}, 9 * 500))
      : helper \in BOOLEAN }

InitShooter == InitFrom(ShooterGames)
SpecShooter == InitShooter /\ [][Next]_vars

\* every scenario
Init == InitFrom(DamageGames \cup SplitGames \cup SnakeGames \cup HexagonGames
                 \cup TeleportGames \cup GrabberGames \cup GrabClickGames
                 \cup ShooterGames)
Spec == Init /\ [][Next]_vars

(***************************************************************************)
(* Properties.  A step of Game.handle_click leaves `now` unchanged; a step *)
(* of Game.update advances it.                                             *)
(***************************************************************************)
Ids(cs) == {cs[k].id : k \in 1 .. Len(cs)}
ById(cs, id) == cs[IndexOf(cs, id)]

\* the circles of type tp present before and after the step
Surviving(tp) == {id \in Ids(circles) \cap Ids(circles') : ById(circles, id).type = tp}

ClickStep == now' = now
UpdateStep == now' > now /\ last_tick'.updated
DamageStep == ClickStep /\ last_click'.target # 0

\* C1: the health of every entity stays between 0 and its max_health, through
\* every take_damage call and every regeneration step.
C1_HealthWithinBounds ==
    \A k \in 1 .. Len(circles) :
        0 <= circles[k].health /\ circles[k].health <= circles[k].max_health

\* a supertank damaged again after regeneration had restored health
C1_Witness ==
    \E k \in 1 .. Len(circles) :
        /\ circles[k].type = "SUPERTANK"
        /\ circles[k].obs_regenerated
        /\ last_click.target = circles[k].id
        /\ circles[k].last_clicked_time = now
        /\ circles[k].health < circles[k].max_health

\* C2: an entity of the live collection is dying exactly when its health is 0;
\* take_damage lowers health by one, and returns True and sets dying exactly
\* when that brings health to 0, so an entity of health 1 is removed by its
\* first hit.
C2_DyingIffHealthZero ==
    /\ [](\A k \in 1 .. Len(circles) : circles[k].dying <=> circles[k].health = 0)
    /\ [][DamageStep =>
            LET pre == ById(circles, last_click'.target)
                post == ById(circles', last_click'.target)
            IN /\ ~pre.dying
               /\ post.health = pre.health - 1
               /\ last_click'.removed <=> post.health = 0
               /\ post.dying <=> last_click'.removed
               /\ pre.health = 1 => last_click'.removed]_vars

\* an entity of max_health 1 removed by the one hit it took
C2_Witness ==
    \E k \in 1 .. Len(circles) :
        /\ circles[k].max_health = 1
        /\ circles[k].dying
        /\ circles[k].health = 0
        /\ last_click.target = circles[k].id
        /\ last_click.removed

\* C3 (as claimed): segments_killed of a snake changes only in a click that
\* hits the surviving segment nearest the tail (within the segment radius, or
\* the enhanced radius of the click radius helper), and then by exactly 1; a
\* click that hits another surviving segment changes neither segments_killed
\* nor health; 0 <= segments_killed <= n.
C3_SegmentsOnlyByTailClick ==
    [][\A id \in Surviving("SNAKE") :
          LET pre == ById(circles, id)
              post == ById(circles', id)
              n == Len(pre.segments)
              hit == FirstSegmentHit(pre, last_click'.pos, 1)
              reach == SegRadius(pre) + (IF click_radius_helper THEN ClickRadius * 1000 ELSE 0)
          IN /\ post.segments_killed # pre.segments_killed =>
                   /\ ClickStep
                   /\ Abs(pre.segments[n - pre.segments_killed] - last_click'.pos) * 1000 <= reach
                   /\ post.segments_killed = pre.segments_killed + 1
             /\ (ClickStep /\ hit # 0 /\ hit # n - pre.segments_killed) =>
                   /\ post.segments_killed = pre.segments_killed
                   /\ post.health = pre.health
             /\ 0 <= post.segments_killed /\ post.segments_killed <= n]_vars

\* C4: whenever the health of a snake drops, every one of its segments has been
\* eliminated; a click on the head that hits no segment does nothing while
\* segments remain, with or without the click radius helper, and kills the
\* snake once they are all gone.
C4_HeadOnlyAfterSegments ==
    [][\A id \in Surviving("SNAKE") :
          LET pre == ById(circles, id)
              post == ById(circles', id)
              n == Len(pre.segments)
              pos == last_click'.pos
              onHead == Abs(pos - pre.x) * 1000 <= pre.radius
          IN /\ post.health < pre.health => post.segments_killed = n
             /\ post.dying => post.segments_killed = n
             /\ (ClickStep /\ onHead /\ ~pre.dying /\ FirstSegmentHit(pre, pos, 1) = 0) =>
                   IF pre.segments_killed < n
                   THEN post.health = pre.health /\ post.segments_killed = pre.segments_killed
                   ELSE last_click'.target = id /\ last_click'.removed /\ post.dying]_vars

\* without the helper: the three segments of a snake clicked away, then the head
C4_Witness ==
    /\ ~click_radius_helper
    /\ \E k \in 1 .. Len(circles) :
          /\ circles[k].type = "SNAKE"
          /\ Len(circles[k].segments) = 3
          /\ circles[k].segments_killed = 3
          /\ circles[k].dying
          /\ last_click.target = circles[k].id

\* C5: a TELEPORTING entity that takes lethal damage appends no children when
\* its split_generation has reached its max_split_generations, or when the
\* child radius the rule computes (base_radius * max(0.4, size_variation * 0.6))
\* is below 8 pixels; whatever the roll, and in the sandbox too.
C5_NoSplitAtCapOrTooSmall ==
    [][DamageStep =>
          LET pre == ById(circles, last_click'.target)
              capped == pre.split_generation >= pre.max_split_generations
              small == pre.base_radius * Max(400, (pre.size_variation * 600) \div 1000)
                          < 8 * 1000000
          IN (pre.type = "TELEPORTING" /\ last_click'.removed /\ (capped \/ small)) =>
                /\ last_click'.children = 0
                /\ Len(circles') = Len(circles)]_vars

\* in the sandbox: a child at its generation cap and a child below its cap but
\* too small, both killed and neither split
C5_Witness ==
    /\ state = "SANDBOX"
    /\ \E k \in 1 .. Len(circles) :
          /\ circles[k].dying
          /\ circles[k].split_generation = 1
          /\ circles[k].max_split_generations = 1
          /\ ~ChildTooSmall(circles[k])
    /\ \E k \in 1 .. Len(circles) :
          /\ circles[k].dying
          /\ circles[k].split_generation = 1
          /\ circles[k].max_split_generations = 2
          /\ ChildTooSmall(circles[k])
    /\ \A k \in 1 .. Len(circles) : circles[k].split_generation <= 1

\* C6: a split appends exactly two entities, TELEPORTING, of the parent's
\* generation plus one and the parent's max_split_generations; in the sandbox
\* a first-generation entity with max_split_generations 1 always splits when
\* killed, and its children never do.
C6_SplitAppendsTwoChildren ==
    [][DamageStep =>
          LET pre == ById(circles, last_click'.target)
              n == Len(circles)
          IN /\ SubSeq(circles', 1, n) = [circles EXCEPT ![IndexOf(circles, pre.id)] =
                                              ById(circles', pre.id)]
             /\ Len(circles') \in {n, n + 2}
             /\ Len(circles') = n + 2 =>
                   /\ pre.type = "TELEPORTING" /\ last_click'.removed
                   /\ \A j \in {n + 1, n + 2} :
                         /\ circles'[j].type = "TELEPORTING"
                         /\ circles'[j].split_generation = pre.split_generation + 1
                         /\ circles'[j].max_split_generations = pre.max_split_generations
                         /\ ~circles'[j].dying
                         /\ circles'[j].id \notin Ids(circles)
                   /\ circles'[n + 1].id # circles'[n + 2].id
             /\ (state = "SANDBOX" /\ pre.type = "TELEPORTING" /\ last_click'.removed
                 /\ pre.max_split_generations = 1) =>
                   Len(circles') = IF pre.split_generation = 0 THEN n + 2 ELSE n]_vars

\* max_split_generations 1 in the sandbox: the parent and its two children
\* killed, and nothing else came of it
C6_Witness ==
    /\ state = "SANDBOX"
    /\ \E p \in 1 .. Len(circles) :
          /\ circles[p].split_generation = 0
          /\ circles[p].max_split_generations = 1
          /\ circles[p].dying
    /\ LET kids == {k \in 1 .. Len(circles) : circles[k].split_generation = 1
                                               /\ circles[k].max_split_generations = 1}
       IN Cardinality(kids) = 2 /\ \A k \in kids : circles[k].dying
    /\ \A k \in 1 .. Len(circles) :
          circles[k].max_split_generations = 1 => circles[k].split_generation <= 1

\* C7: the is_filled flag of every hexagon equals hollow_alpha > T, with
\* T = max(160, 200 - reduction(difficulty) + clamp((round_num - 8) * 2, 0, 25)),
\* and evaluating the filled state once more changes nothing.
C7_FilledIsAlphaAboveThreshold ==
    \A k \in 1 .. Len(circles) :
        circles[k].type = "HEXAGON" =>
            /\ circles[k].is_filled <=>
                  circles[k].hollow_alpha > FilledThreshold(difficulty, circles[k].round_num)
            /\ UpdateHexagonFilledState(circles[k], difficulty) = circles[k]

\* an expanding hexagon in its hollowing phase, at an alpha the phase itself
\* takes for filled
C7_Witness ==
    \E k \in 1 .. Len(circles) :
        /\ circles[k].type = "HEXAGON"
        /\ circles[k].is_expanding_hexagon
        /\ circles[k].expansion_phase = "hollowing"
        /\ circles[k].hollow_alpha > 5000
        /\ ~circles[k].is_filled

\* the cursor distance of a TELEPORTING entity in the update of this step
FarFrom(c) == Abs(c.x - last_tick'.mouse) > ProximityTeleportRange(difficulty)

Teleporters == {id \in Surviving("TELEPORTING") : ~ById(circles, id).dying}

C9_NoTeleportOnReentry ==
    \A k \in 1 .. Len(circles) :
        circles[k].id \in last_tick.teleported => ~circles[k].obs_reentry

\* C9 (amended): an out-of-range update never brings a cooldown above 1 down to
\* a value that lets the next in-range update teleport; a teleport in the first
\* in-range update after an out-of-range one happens only when the cooldown was
\* at most 1 before the cursor was out of range.
C9_FarTickNeverArms ==
    [][UpdateStep =>
          \A id \in Teleporters :
              LET pre == ById(circles, id)
                  post == ById(circles', id)
              IN /\ (FarFrom(pre) /\ pre.teleport_cooldown > 1) =>
                       post.teleport_cooldown > 1
                 /\ (FarFrom(pre) /\ pre.teleport_cooldown <= 1) =>
                       post.teleport_cooldown = pre.teleport_cooldown
                 /\ (id \in last_tick'.teleported /\ pre.obs_far) =>
                       pre.teleport_cooldown <= 1]_vars

\* a teleport in the first in-range update after an out-of-range one
C9_Witness ==
    \E k \in 1 .. Len(circles) :
        /\ circles[k].id \in last_tick.teleported
        /\ circles[k].obs_reentry

Grabbers == {id \in Ids(circles) \cap Ids(circles') :
                ById(circles, id).type = "CURSOR_GRABBER" /\ ~ById(circles, id).dying}

\* C10: a grabber starts grabbing only in an update with the cursor within
\* grab_distance, after an unbroken run of such updates that began at least
\* pre_grab_delay earlier; an update of an attacking grabber with the cursor
\* outside grab_distance sets the wind-up start back to zero.
C10_GrabOnlyAfterFullWindUp ==
    [][UpdateStep =>
          \A id \in Grabbers :
              LET pre == ById(circles, id)
                  post == ById(circles', id)
                  inRange == Abs(last_tick'.mouse - pre.x) <= GrabDistance
                  attacking == ~pre.is_grabbing /\ pre.is_stalking /\ pre.will_attack
              IN /\ (~pre.is_grabbing /\ post.is_grabbing) =>
                       /\ attacking /\ inRange
                       /\ pre.obs_in_range_since > 0
                       /\ now' - pre.obs_in_range_since >= pre.pre_grab_delay
                 /\ (attacking /\ ~inRange) =>
                       /\ post.pre_grab_start_time = 0
                       /\ ~post.is_grabbing]_vars

\* a grab that started in the last update, well after the stalking began
C10_Witness ==
    \E k \in 1 .. Len(circles) :
        /\ circles[k].type = "CURSOR_GRABBER"
        /\ circles[k].is_grabbing
        /\ circles[k].grab_start_time = now
        /\ now - circles[k].stalk_start_time > 2 * circles[k].pre_grab_delay

\* a grabber that is grabbing, or stalking with the decision to attack
GrabberActive(c) ==
    c.type = "CURSOR_GRABBER" /\ (c.is_grabbing \/ (c.is_stalking /\ c.will_attack))

\* C11: at most one CURSOR_GRABBER of the live collection is grabbing, and at
\* most one is grabbing or committed to attack; a grabber whose wait has expired
\* while another one is grabbing or committed (as the collection stands when
\* its turn comes in the update loop) does not start stalking and restarts its
\* wait timer.
C11_OneGrabberAtATime ==
    /\ [](Cardinality({k \in 1 .. Len(circles) :
                          circles[k].type = "CURSOR_GRABBER" /\ circles[k].is_grabbing}) <= 1)
    /\ [](Cardinality({k \in 1 .. Len(circles) : GrabberActive(circles[k])}) <= 1)
    /\ [][UpdateStep =>
            \A id \in Grabbers :
                LET pre == ById(circles, id)
                    post == ById(circles', id)
                    i == IndexOf(circles, id)
                    expired == /\ ~pre.is_grabbing /\ ~pre.is_stalking
                               /\ pre.wait_start_time # 0
                               /\ now' - pre.wait_start_time >= pre.wait_time
                    busy == \E j \in 1 .. Len(circles) :
                               \/ j > i /\ GrabberActive(circles[j])
                               \/ /\ j < i
                                  /\ circles[j].id \in Ids(circles')
                                  /\ GrabberActive(ById(circles', circles[j].id))
                IN (expired /\ busy) =>
                       /\ ~post.is_stalking /\ ~post.is_grabbing
                       /\ post.wait_start_time = now']_vars

\* a grabber sent back to waiting in the last update while the other one is
\* grabbing
C11_Witness ==
    \E k, m \in 1 .. Len(circles) :
        /\ circles[k].type = "CURSOR_GRABBER" /\ circles[m].type = "CURSOR_GRABBER"
        /\ circles[m].is_grabbing
        /\ ~circles[k].is_stalking /\ ~circles[k].is_grabbing
        /\ circles[k].wait_start_time = now
        /\ now > StartTime + circles[k].wait_time + FrameMs

\* C12: the update in which a grab has lasted grab_duration ends it and turns
\* the entity into a NORMAL one worth 10 points; an entity that is not a
\* CURSOR_GRABBER never becomes one, never grabs, and no step touches its
\* grabber timers, its cursor target or its points.
C12_ReleasedGrabberStaysNormal ==
    /\ [](\A k \in 1 .. Len(circles) :
             circles[k].is_grabbing => circles[k].type = "CURSOR_GRABBER")
    /\ [][\A id \in Ids(circles) \cap Ids(circles') :
            LET pre == ById(circles, id)
                post == ById(circles', id)
            IN /\ (/\ UpdateStep
                   /\ pre.type = "CURSOR_GRABBER" /\ ~pre.dying /\ pre.is_grabbing
                   /\ now' - pre.grab_start_time >= pre.grab_duration) =>
                      /\ ~post.is_grabbing
                      /\ post.type = "NORMAL"
                      /\ post.points = 10
               /\ pre.type # "CURSOR_GRABBER" =>
                      /\ post.type # "CURSOR_GRABBER"
                      /\ ~post.is_grabbing
                      /\ post.points = pre.points
                      /\ post.cursor_target_x = pre.cursor_target_x
                      /\ post.pre_grab_start_time = pre.pre_grab_start_time
                      /\ post.wait_start_time = pre.wait_start_time
                      /\ post.grab_start_time = pre.grab_start_time]_vars

\* a released grabber, updated at least once since with the cursor on it
C12_Witness ==
    /\ ~cursor_is_grabbed
    /\ last_tick.updated
    /\ \E k \in 1 .. Len(circles) :
          /\ circles[k].type = "NORMAL"
          /\ circles[k].grab_start_time > 0
          /\ now - circles[k].grab_start_time >= circles[k].grab_duration
          /\ circles[k].points = 10
          /\ Abs(last_tick.mouse - circles[k].x) <= GrabDistance

\* C13: while a CURSOR_GRABBER is grabbing, is_clicked refuses every position,
\* with and without the click radius helper, and no click of handle_click
\* targets it or changes it.
C13_GrabbingIsUnclickable ==
    /\ [](\A k \in 1 .. Len(circles) :
             (circles[k].type = "CURSOR_GRABBER" /\ circles[k].is_grabbing) =>
                 \A pos \in (circles[k].x - 60) .. (circles[k].x + 60) :
                     /\ ~IsClicked(circles[k], pos, difficulty).hit
                     /\ ~CanClick(circles[k], pos, difficulty, TRUE).hit
                     /\ ~CanClick(circles[k], pos, difficulty, FALSE).hit)
    /\ [][ClickStep =>
            \A k \in 1 .. Len(circles) :
                (circles[k].type = "CURSOR_GRABBER" /\ circles[k].is_grabbing) =>
                    /\ last_click'.target # circles[k].id
                    /\ circles'[k] = circles[k]
                    /\ score' = score]_vars

\* helper enabled: a click on the centre of the grabber that holds the cursor
\* has hit nothing
C13_Witness ==
    /\ click_radius_helper
    /\ cursor_is_grabbed
    /\ \E k \in 1 .. Len(circles) :
          /\ circles[k].type = "CURSOR_GRABBER" /\ circles[k].is_grabbing
          /\ circles[k].health = 1
          /\ now > circles[k].grab_start_time
          /\ last_click.pos = circles[k].x
          /\ last_click.pos = virtual_mouse_pos
          /\ last_click.target = 0

Shooters == {id \in Surviving("SHOOTER") : ~ById(circles, id).dying}

\* C14: an invisible SHOOTER is never clickable: at no position does the hit
\* test of handle_click, with or without the click radius helper, make it a
\* candidate, and no click targets it or changes it.
C14_InvisibleShooterUnclickable ==
    /\ [](\A k \in 1 .. Len(circles) :
             (circles[k].type = "SHOOTER" /\ circles[k].is_invisible) =>
                 \A pos \in (circles[k].x - 80) .. (circles[k].x + 80), helper \in BOOLEAN :
                     ~Clickable(circles[k],
                                CanClick(circles[k], pos, difficulty, helper).hit))
    /\ [][ClickStep =>
            \A k \in 1 .. Len(circles) :
                (circles[k].type = "SHOOTER" /\ circles[k].is_invisible) =>
                    /\ last_click'.target # circles[k].id
                    /\ circles'[k] = circles[k]
                    /\ score' = score]_vars

\* helper enabled: a click inside the enhanced radius of an invisible shooter
\* that had been damaged while visible, and nothing was hit
C14_Witness ==
    /\ click_radius_helper
    /\ \E k \in 1 .. Len(circles) :
          /\ circles[k].type = "SHOOTER" /\ circles[k].is_invisible
          /\ ~circles[k].dying
          /\ circles[k].health < circles[k].max_health
          /\ Abs(last_click.pos - circles[k].x) = 40
          /\ last_click.target = 0
          /\ now > circles[k].invisibility_start_time

\* the live projectiles fired by shooter id at time t0
LiveOfVolley(tris, id, t0) ==
    {i \in 1 .. Len(tris) : tris[i].shooter = id /\ tris[i].spawn_time = t0}

\* C15: an invisible SHOOTER becomes visible only in a tick in which its
\* invisibility_duration has elapsed and none of the projectiles of its last
\* volley is still in the live projectile list.
C15_ReappearsOnlyWhenVolleyGone ==
    [][UpdateStep =>
        \A id \in Shooters :
            (ById(circles, id).is_invisible /\ ~ById(circles', id).is_invisible) =>
                /\ now' - ById(circles, id).invisibility_start_time
                       >= ById(circles, id).invisibility_duration
                /\ LiveOfVolley(triangles, id, ById(circles, id).last_shot_time) = {}]_vars

\* C16: a SHOOTER fires only whole volleys, only with the cursor in range and
\* its spin-up complete, and never before shot_cooldown and the
\* visibility-after-shot delay have elapsed since its last volley; with the
\* cursor in range, spin-up complete, no projectile of its own alive and the
\* delays elapsed it fires exactly one volley in that tick.
C16_OneVolleyPerCooldown ==
    [][UpdateStep =>
        \A id \in Shooters :
            LET pre == ById(circles, id)
                post == ById(circles', id)
                fired == post.last_shot_time = now'
                inRange == Abs(pre.x - last_tick'.mouse) <= DetectionRange
                spun == /\ pre.is_spinning
                        /\ now' - pre.spin_start_time >= SpinUpTime(difficulty)
                rested == /\ now' - pre.last_shot_time >= ShotCooldown
                          /\ pre.has_fired =>
                                now' - pre.last_shot_time >= VisibilityAfterShot(difficulty)
            IN /\ Cardinality(LiveOfVolley(triangles', id, now'))
                      = (IF fired THEN TriangleCount ELSE 0)
               /\ fired =>
                      /\ inRange /\ spun /\ rested
               /\ (/\ inRange /\ spun /\ rested
                   /\ ~pre.is_invisible /\ pre.shot_fired_time = 0
                   /\ \A i \in 1 .. Len(triangles) : triangles[i].shooter # id) => fired]_vars

\* a second volley, fired after the shooter had been invisible and had come back
C16_Witness ==
    \E k \in 1 .. Len(circles) :
        /\ circles[k].type = "SHOOTER" /\ ~circles[k].dying
        /\ circles[k].invisibility_start_time > 0
        /\ circles[k].last_shot_time = now
        /\ now - circles[k].invisibility_start_time >= circles[k].invisibility_duration
        /\ Cardinality(LiveOfVolley(triangles, circles[k].id, now)) = TriangleCount

\* C17: dying never becomes false again, and a dying entity is removed on
\* exactly the death_duration-th update tick after the lethal hit: every
\* update adds one to death_timer, which starts at 0, and the entity leaves
\* the list in the update that brings the timer to death_duration, never
\* before and never in any other step.
C17_DyingRunsToRemoval ==
    /\ [](\A k \in 1 .. Len(circles) :
             /\ circles[k].dying => circles[k].death_timer < DeathDuration
             /\ ~circles[k].dying => circles[k].death_timer = 0)
    /\ [][\A id \in Ids(circles) :
            ById(circles, id).dying =>
                IF UpdateStep
                THEN /\ id \in Ids(circles')
                            <=> ById(circles, id).death_timer + 1 < DeathDuration
                     /\ id \in last_tick'.removed <=> id \notin Ids(circles')
                     /\ id \in Ids(circles') =>
                            /\ ById(circles', id).dying
                            /\ ById(circles', id).death_timer
                                   = ById(circles, id).death_timer + 1
                ELSE /\ id \in Ids(circles')
                     /\ ById(circles', id).dying
                     /\ ById(circles', id).death_timer = ById(circles, id).death_timer]_vars

\* an entity killed by a click has just been removed by the update that ended
\* its death animation
C17_Witness ==
    /\ last_tick.updated /\ last_tick.exploded = 0
    /\ last_click.removed /\ last_click.target \in last_tick.removed
    /\ last_click.target \notin Ids(circles)

\* C18: while an entity is dying no step (tick, separation, click) changes its
\* position, its health or its variant state (segments, segments_killed, the
\* timers of its type); only death_timer and the animation radius change.
C18_DyingIsFrozen ==
    [][\A id \in Ids(circles) \cap Ids(circles') :
          ById(circles, id).dying =>
              [ById(circles', id) EXCEPT !.death_timer = ById(circles, id).death_timer,
                                         !.radius = ById(circles, id).radius]
                  = ById(circles, id)]_vars

\* a split parent in its death animation, ticked while it overlaps one of its
\* children, and a click inside it that went to a child
C18_Witness ==
    \E k, m \in 1 .. Len(circles) :
        /\ circles[k].dying /\ circles[k].death_timer > 0
        /\ circles[k].split_generation = 0
        /\ ~circles[m].dying /\ circles[k].x # circles[m].x
        /\ Abs(circles[k].x - circles[m].x) * 1000 < circles[k].radius + circles[m].radius
        /\ Abs(last_click.pos - circles[k].x) * 1000 < circles[k].radius
        /\ last_click.target \notin {0, circles[k].id}

\* C19: the score changes only in a handle_click whose take_damage returned
\* True, and then by exactly the points of the entity hit; non-lethal hits,
\* segment eliminations, self-destruct explosions and ticks leave it as it is.
C19_ScoreOnlyOnKill ==
    [][IF DamageStep /\ last_click'.removed
       THEN score' = score + ById(circles, last_click'.target).points
       ELSE score' = score]_vars

\* the last click killed an entity of more than one health point, and its
\* points are in the score
C19_Witness ==
    /\ last_click.removed /\ score > 0
    /\ last_click.target \in Ids(circles)
    /\ score >= ById(circles, last_click.target).points
    /\ ById(circles, last_click.target).points > 0
    /\ ById(circles, last_click.target).max_health > 1

\* the entities of the list after update_circle has been applied to each of them
UpdatedCircles(r) ==
    UpdateLoop(circles, circles, 1, last_tick'.mouse, now', r, difficulty,
               [exploded |-> 0, teleported |-> {}, removed |-> {},
                triangles |-> triangles]).cs

\* C20: within one Game.update tick the separation pass runs once, after
\* update_circle has been applied to every entity, and nothing updates an
\* entity afterwards: what the tick leaves of the old entities is the
\* separation of the fully updated list.
C20_SeparationAfterAllUpdates ==
    [][UpdateStep =>
          \E r \in frame_env.rand :
              /\ Len(circles') >= Len(UpdatedCircles(r))
              /\ SubSeq(circles', 1, Len(UpdatedCircles(r)))
                     = HandleAllCircleCollisions(UpdatedCircles(r), 1, 2)]_vars

\* two live entities that the last tick left overlapping, at different places:
\* the separation pass had a pair to push apart
C20_Witness ==
    /\ last_tick.updated
    /\ \E k, m \in 1 .. Len(circles) :
          /\ k < m
          /\ ~circles[k].dying /\ ~circles[m].dying
          /\ circles[k].x # circles[m].x
          /\ Abs(circles[k].x - circles[m].x) * 1000 < circles[k].radius + circles[m].radius

\* C21: what a step creates is only appended in that step: split children are
\* appended behind the entities of the list by the click that creates them,
\* and a projectile fired in a tick is, at the end of that tick, still at the
\* point it was spawned from, unfaded, and has not hit the cursor; it is first
\* moved and collision-tested in the next tick.
C21_CreatedProcessedNextTick ==
    [][/\ ClickStep =>
            /\ Len(circles') >= Len(circles)
            /\ \A k \in 1 .. Len(circles) : circles'[k].id = circles[k].id
       /\ UpdateStep =>
            \A i \in 1 .. Len(triangles') :
                triangles'[i].spawn_time = now' =>
                    /\ triangles'[i].x = ById(circles', triangles'[i].shooter).x
                    /\ ~triangles'[i].is_fading]_vars

\* C22: self_destruct_active becomes True exactly in the take_damage call that
\* first brings a SUPERTANK's health to max_health // 2 or below: a supertank
\* without it has more than half its health, the flag is set only by a click
\* that takes the health from above half to half, and no entity of another
\* type ever carries it.
C22_SelfDestructStartsAtHalfHealth ==
    /\ [](\A k \in 1 .. Len(circles) :
             /\ circles[k].self_destruct_active => circles[k].type = "SUPERTANK"
             /\ (circles[k].type = "SUPERTANK" /\ ~circles[k].self_destruct_active) =>
                    circles[k].health > circles[k].max_health \div 2)
    /\ [][\A id \in Ids(circles) \cap Ids(circles') :
            (~ById(circles, id).self_destruct_active
             /\ ById(circles', id).self_destruct_active) =>
                /\ DamageStep /\ last_click'.target = id
                /\ ById(circles, id).health > ById(circles, id).max_health \div 2
                /\ ById(circles', id).health = ById(circles, id).health - 1
                /\ ById(circles', id).health <= ById(circles', id).max_health \div 2
                /\ ById(circles', id).self_destruct_timer = 0]_vars

\* the click that brought a supertank to half its health has just started the
\* sequence
C22_Witness ==
    \E k \in 1 .. Len(circles) :
        /\ circles[k].type = "SUPERTANK" /\ circles[k].self_destruct_active
        /\ circles[k].self_destruct_timer = 0
        /\ circles[k].health = circles[k].max_health \div 2
        /\ last_click.target = circles[k].id

\* the supertanks whose countdown the next update completes
Exploding ==
    {id \in Ids(circles) :
        /\ ById(circles, id).type = "SUPERTANK" /\ ~ById(circles, id).dying
        /\ ById(circles, id).self_destruct_active
        /\ ById(circles, id).self_destruct_timer + 1
               >= ById(circles, id).self_destruct_duration}

\* C23: once a SUPERTANK's self-destruct is active, every update tick of the
\* (non-dying) entity adds one to its timer and no step pauses, resets or
\* cancels it, whatever its health; the tick in which the timer reaches
\* self_destruct_duration removes the entity and takes exactly one life for it.
C23_SelfDestructRunsToTheEnd ==
    [][/\ \A id \in Ids(circles) :
             (/\ ById(circles, id).type = "SUPERTANK"
              /\ ById(circles, id).self_destruct_active
              /\ ~ById(circles, id).dying) =>
                 IF UpdateStep
                 THEN IF id \in Exploding
                      THEN id \notin Ids(circles') /\ id \in last_tick'.removed
                      ELSE /\ id \in Ids(circles')
                           /\ ById(circles', id).self_destruct_active
                           /\ ById(circles', id).self_destruct_timer
                                  = ById(circles, id).self_destruct_timer + 1
                 ELSE /\ id \in Ids(circles')
                      /\ ById(circles', id).self_destruct_active
                      /\ ById(circles', id).self_destruct_timer
                             = ById(circles, id).self_destruct_timer
       /\ UpdateStep =>
             /\ last_tick'.exploded = Cardinality(Exploding)
             /\ state = "PLAYING" =>
                    \E hit \in frame_env.hits :
                        lives' = lives - (IF hit THEN 1 ELSE 0) - Cardinality(Exploding)]_vars

\* a supertank has just exploded and taken a life
C23_Witness ==
    /\ last_tick.updated /\ last_tick.exploded = 1
    /\ last_tick.removed # {}
    /\ lives = StartLives - 1

\* C24: health rises only by a SUPERTANK's regeneration: one point in a tick,
\* never above max_health, regen_rate after the last point or the start of the
\* regeneration; a regeneration starts only in a tick regen_cooldown or more
\* after the last damaging click, and such a click stops it and restarts the
\* cooldown.  No entity of another type gains health.
C24_RegenerationOnlyAfterCooldown ==
    /\ [](\A k \in 1 .. Len(circles) :
             circles[k].regen_active =>
                 /\ circles[k].type = "SUPERTANK"
                 /\ circles[k].last_clicked_time = 0)
    /\ [][\A id \in Ids(circles) \cap Ids(circles') :
            LET pre == ById(circles, id)
                post == ById(circles', id)
            IN /\ post.health > pre.health =>
                      /\ UpdateStep
                      /\ pre.type = "SUPERTANK"
                      /\ post.health = pre.health + 1
                      /\ post.health <= pre.max_health
                      /\ pre.regen_active
                      /\ now' - pre.regen_timer >= RegenRate
               /\ (~pre.regen_active /\ post.regen_active) =>
                      /\ UpdateStep
                      /\ pre.last_clicked_time > 0
                      /\ now' - pre.last_clicked_time >= RegenCooldown
               /\ (DamageStep /\ last_click'.target = id /\ pre.type = "SUPERTANK") =>
                      /\ ~post.regen_active
                      /\ post.last_clicked_time = now
                      /\ post.health = pre.health - 1]_vars

\* a supertank that a click had damaged is back at full health
C24_Witness ==
    \E k \in 1 .. Len(circles) :
        /\ circles[k].type = "SUPERTANK" /\ ~circles[k].dying
        /\ last_click.target = circles[k].id
        /\ circles[k].health = circles[k].max_health
        /\ ~circles[k].regen_active
        /\ circles[k].regen_timer = now

\* C25: a SHOOTER fires only while the cursor is within detection_range of the
\* point its projectiles spawn from, also in the tick in which it reappears
\* and relocates.
C25_FiresOnlyInRangeOfItsPosition ==
    [][UpdateStep =>
          \A i \in 1 .. Len(triangles') :
              triangles'[i].spawn_time = now' =>
                  Abs((triangles'[i].x - triangles'[i].vx) - last_tick'.mouse)
                      <= DetectionRange]_vars

\* the delays the difficulty is meant to select
DelayByDifficulty(d) ==
    CASE d = "EASY" -> 3000 [] d = "MEDIUM" -> 2500 [] d = "HARD" -> 2000 [] OTHER -> 1500

\* C26: after firing, a SHOOTER stays visible for 3000 ms on Easy, 2500 ms on
\* Medium, 2000 ms on Hard and 1500 ms on Nightmare before it turns invisible.
C26_VisibleForDifficultyDelay ==
    [][UpdateStep =>
          \A id \in Shooters :
              /\ ById(circles', id).last_shot_time = now' =>
                     ById(circles', id).visibility_after_shot = DelayByDifficulty(difficulty)
              /\ (~ById(circles, id).is_invisible /\ ById(circles', id).is_invisible) =>
                     now' - ById(circles, id).last_shot_time
                         >= DelayByDifficulty(difficulty)]_vars

\* C27: the expansion_phase of an expanding HEXAGON changes only along
\* expanding -> hollowing -> hollow_cooldown -> expanding.  It leaves
\* expanding only when expansion_progress reaches 1 with the cursor inside the
\* trigger distance; every update of a hollowing hexagon advances hollow_timer
\* wherever the cursor is, and the phase ends when the timer reaches 1; in the
\* cooldown a tick with the cursor at 1.2 times the trigger distance or more
\* counts reset_cooldown down by one, a closer tick puts it back to its full
\* duration, and the phase ends only when the counter reaches 0.
C27_ExpansionCycle ==
    [][\A id \in Ids(circles) \cap Ids(circles') :
          LET pre == ById(circles, id)
              post == ById(circles', id)
              d1000 == Abs(pre.x - last_tick'.mouse) * 1000
              trigger == 120 * pre.scale_factor
          IN (pre.type = "HEXAGON" /\ pre.is_expanding_hexagon /\ ~pre.dying) =>
                /\ post.expansion_phase # pre.expansion_phase =>
                      /\ UpdateStep
                      /\ <<pre.expansion_phase, post.expansion_phase>> \in
                             { <<"expanding", "hollowing">>,
                               <<"hollowing", "hollow_cooldown">>,
                               <<"hollow_cooldown", "expanding">> }
                /\ (pre.expansion_phase = "expanding"
                    /\ post.expansion_phase = "hollowing") =>
                      /\ d1000 < trigger
                      /\ post.expansion_progress = 1000000
                      /\ post.hollow_timer = 0
                /\ (UpdateStep /\ pre.expansion_phase = "hollowing") =>
                      /\ post.hollow_timer > pre.hollow_timer
                      /\ post.expansion_phase = "hollow_cooldown"
                             <=> post.hollow_timer = 1000000
                      /\ post.expansion_phase = "hollow_cooldown" =>
                             post.reset_cooldown = pre.reset_cooldown_duration
                /\ (UpdateStep /\ pre.expansion_phase = "hollow_cooldown") =>
                      IF d1000 * 10 >= trigger * 12
                      THEN /\ post.reset_cooldown = pre.reset_cooldown - 1
                           /\ post.expansion_phase = "expanding"
                                  <=> post.reset_cooldown <= 0
                      ELSE /\ post.reset_cooldown = pre.reset_cooldown_duration
                           /\ post.expansion_phase = "hollow_cooldown"]_vars

\* a hexagon that went through its cooldown and expands again
C27_Witness ==
    \E k \in 1 .. Len(circles) :
        /\ circles[k].type = "HEXAGON" /\ circles[k].is_expanding_hexagon
        /\ circles[k].expansion_phase = "expanding"
        /\ circles[k].expansion_progress > 0
        /\ circles[k].hollow_timer = 1000000
        /\ circles[k].reset_cooldown <= 0
        /\ last_tick.updated /\ last_tick.mouse = circles[k].x

\* C28: the radius a growing HEXAGON has after update_circle is scaled by its
\* growth_multiplier: whenever the multiplier is above 1 the radius exceeds the
\* ungrown radius base_radius * scale_factor.
C28_RadiusFollowsGrowth ==
    \A k \in 1 .. Len(circles) :
        (/\ circles[k].type = "HEXAGON" /\ circles[k].is_growing_hexagon
         /\ ~circles[k].dying
         /\ circles[k].growth_multiplier > 1000) =>
            circles[k].radius > (circles[k].base_radius * circles[k].scale_factor) \div 1000

\* the bonus by the bands of the round number
BandBonus(rn) ==
    IF rn <= 20 THEN 0
    ELSE IF rn <= 29 THEN 2
    ELSE IF rn <= 39 THEN 3
    ELSE IF rn <= 49 THEN 4
    ELSE 5

\* c against the entity raw that the type setup gave before the bonus
BonusOver(c, raw) ==
    LET b == IF c.split_generation = 0 /\ c.type # "CURSOR_GRABBER"
             THEN BandBonus(c.round_num) ELSE 0
    IN /\ c.max_health = raw.max_health + b
       /\ c.points = (raw.points * (10 + 3 * b)) \div 10
       /\ c.health <= c.max_health

\* C30: an entity created in a round above 20 with split_generation 0 and a
\* type other than CURSOR_GRABBER has the max_health of its type raised by the
\* flat bonus of the round's band (2, 3, 4, 5) and its points multiplied by
\* 1 + 0.3 * bonus, and starts at full health; split children, grabbers and
\* entities of the rounds up to 20 keep the values of their type.
C30_RoundBonusAtCreation ==
    /\ [](\A k \in 1 .. Len(circles) :
             LET c == circles[k]
             IN (c.type = "CURSOR_GRABBER" \/ c.grab_duration = 0) =>
                    \E r \in Rand :
                        BonusOver(c, SetupTypeProperties(c.id, c.x, c.type, c.size_variation,
                                                         c.split_generation,
                                                         c.max_split_generations, difficulty,
                                                         c.round_num, state, Draws(r))))
    /\ [][\A id \in Ids(circles') \ Ids(circles) :
            ById(circles', id).health = ById(circles', id).max_health]_vars

\* in a round of the top band a spawned entity with the bonus of 5, next to a
\* grabber and two split children without it
C30_Witness ==
    /\ round_num >= 50
    /\ \E k \in 1 .. Len(circles) :
           /\ circles[k].type = "CURSOR_GRABBER"
           /\ circles[k].max_health = 1
    /\ \E k \in 1 .. Len(circles) :
           /\ circles[k].split_generation = 1
           /\ circles[k].max_health = 1
    /\ \E k \in 1 .. Len(circles) :
           /\ circles[k].split_generation = 0
           /\ circles[k].id > 2
           /\ circles[k].type = "NORMAL"
           /\ circles[k].max_health = 6
           /\ circles[k].health = 6
           /\ circles[k].points = (((10 * PointsMult(difficulty)) \div 10) * 25) \div 10

\* the scalar state that the pattern of c owns
PatternLocal(c) ==
    CASE c.movement_pattern = "WANDERING" -> c.wander_timer
      [] c.movement_pattern = "ZIGZAG" -> c.zigzag_timer
      [] OTHER -> c.pattern_local

StandardMover(c) == c.type \notin {"HEXAGON", "CURSOR_GRABBER", "SNAKE"} /\ ~c.dying

\* C29: every update of an entity on standard movement advances the local
\* state of its movement pattern and adds a velocity of that pattern, for
\* each of the seven patterns.
C29_EveryPatternDrivesMovement ==
    [][UpdateStep =>
          \A id \in Ids(circles) \cap Ids(circles') :
              LET pre == ById(circles, id)
                  post == ById(circles', id)
              IN (StandardMover(pre) /\ StandardMover(post)) =>
                     /\ PatternLocal(post) # PatternLocal(pre)
                     /\ post.pattern_velocity > 0]_vars

\* C39: every entity has split_generation <= max_split_generations, the limit
\* being 1 or 2 for a TELEPORTING entity and 0 for every other one; children
\* carry their parent's limit, so the descendants of one original entity are
\* at most 2 children and 4 grandchildren.
C39_SplittingIsBounded ==
    /\ [](\A k \in 1 .. Len(circles) :
             /\ circles[k].split_generation <= circles[k].max_split_generations
             /\ circles[k].type = "TELEPORTING" => circles[k].max_split_generations \in {1, 2}
             /\ circles[k].type # "TELEPORTING" => circles[k].split_generation = 0)
    /\ [](LET kin == {k \in 1 .. Len(circles) : circles[k].split_generation > 0}
          IN (state = "SANDBOX" /\ circles # << >> /\ kin = 2 .. Len(circles)) =>
                 /\ Cardinality({k \in kin : circles[k].split_generation = 1}) <= 2
                 /\ Cardinality({k \in kin : circles[k].split_generation = 2}) <= 4
                 /\ Cardinality(kin) <= 6)
    /\ [][\A id \in Ids(circles') \ Ids(circles) :
            ById(circles', id).split_generation > 0 =>
                /\ DamageStep
                /\ ~ById(circles, last_click'.target).dying
                /\ ById(circles', id).split_generation =
                       ById(circles, last_click'.target).split_generation + 1
                /\ ById(circles', id).max_split_generations =
                       ById(circles, last_click'.target).max_split_generations]_vars

\* an original entity with its two children and four grandchildren, all killed
C39_Witness ==
    /\ state = "SANDBOX"
    /\ Len(circles) = 7
    /\ circles[1].split_generation = 0 /\ circles[1].max_split_generations = 2
    /\ Cardinality({k \in 2 .. 7 : circles[k].split_generation = 1}) = 2
    /\ Cardinality({k \in 2 .. 7 : circles[k].split_generation = 2}) = 4
    /\ \A k \in 1 .. 7 : circles[k].dying

\* C38: a SUPERTANK killed by clicks takes no life: while it is dying its
\* self-destruct countdown stands still, it leaves the collection by its death
\* animation, and an update in which no obstacle can hit and no live
\* countdown expires leaves the lives as they were, also when it removes the
\* dying SUPERTANK.
C38_KilledSupertankTakesNoLife ==
    [][UpdateStep =>
          \A id \in Ids(circles) :
              LET pre == ById(circles, id)
              IN (pre.type = "SUPERTANK" /\ pre.dying) =>
                     /\ id \in Ids(circles') =>
                            /\ ById(circles', id).dying
                            /\ ById(circles', id).self_destruct_timer = pre.self_destruct_timer
                            /\ ById(circles', id).self_destruct_active = pre.self_destruct_active
                     /\ id \notin Ids(circles') => pre.death_timer + 1 >= DeathDuration
                     /\ (Exploding = {} /\ TRUE \notin frame_env.hits) => lives' = lives]_vars

\* a SUPERTANK killed with its countdown running has gone through an update:
\* the countdown is where the kill left it and no life is lost
C38_Witness ==
    /\ last_tick.updated
    /\ lives = StartLives
    /\ \E k \in 1 .. Len(circles) :
          /\ circles[k].type = "SUPERTANK" /\ circles[k].dying
          /\ circles[k].health <= 0
          /\ circles[k].death_timer >= 1
          /\ circles[k].self_destruct_active
          /\ circles[k].self_destruct_timer < circles[k].self_destruct_duration
          /\ last_click.target = circles[k].id

\* C37: in the PLAYING state the lives are above 0 after every update: lives
\* that an obstacle hit or a self-destruct explosion brought to 0 have ended
\* the game.
C37_NoLivesMeansGameOver == state = "PLAYING" => lives > 0

\* C36: one click advances the elimination of a snake by at most one step:
\* segments_killed rises by at most 1, and a click that eliminates a segment
\* leaves the health of the head alone, with or without the click radius
\* helper.
C36_OneStepPerClick ==
    [][ClickStep =>
          \A id \in Ids(circles) \cap Ids(circles') :
              LET pre == ById(circles, id)
                  post == ById(circles', id)
              IN pre.type = "SNAKE" =>
                     /\ post.segments_killed <= pre.segments_killed + 1
                     /\ post.segments_killed > pre.segments_killed =>
                            (post.health = pre.health /\ post.dying = pre.dying)]_vars

\* the entities whose health, dying flag or segments_killed the step changes
DamageChanged ==
    {id \in Ids(circles) \cap Ids(circles') :
        \/ ById(circles', id).health # ById(circles, id).health
        \/ ById(circles', id).dying # ById(circles, id).dying
        \/ ById(circles', id).segments_killed # ById(circles, id).segments_killed}

\* C35: one click changes the health, the dying flag or the segments_killed of
\* at most one entity, and when it selects a target, of no entity but the
\* target.
C35_OneEntityPerClick ==
    [][ClickStep =>
          /\ Cardinality(DamageChanged) <= 1
          /\ last_click'.target # 0 => DamageChanged \subseteq {last_click'.target}]_vars

\* the longest frame the environment produces
LongestFrame == CHOOSE dt \in frame_env.dts : \A e \in frame_env.dts : e <= dt

\* the entry of tris for the projectile tri, if it is still there
SameTriangle(tris, tri) ==
    {j \in 1 .. Len(tris) : TriangleKey(tris[j]) = TriangleKey(tri)}

\* C40: every projectile leaves the list by a deadline.  A projectile that is
\* not fading was spawned at most lifetime - fade_duration ago; a fading one
\* stays fading with the start and the duration of its fade as they were set,
\* also when the cursor touches it; it is removed in the first update at which
\* fade_duration has passed since the start of its fade, and in no other
\* step, so that no projectile in the list has completed its fade.
C40_ProjectilesFadeAndLeave ==
    /\ [](\A k \in 1 .. Len(triangles) :
             LET tri == triangles[k]
             IN IF tri.is_fading
                THEN /\ now - tri.fade_start_time < tri.fade_duration
                     /\ tri.fade_start_time - tri.spawn_time
                            <= TriangleLifetime - TriangleFadeDuration + LongestFrame
                ELSE /\ now - tri.spawn_time <= TriangleLifetime - tri.fade_duration
                     /\ tri.fade_duration = TriangleFadeDuration)
    /\ [][\A k \in 1 .. Len(triangles) :
            LET pre == triangles[k]
                left == SameTriangle(triangles', pre) = {}
            IN /\ left <=> (UpdateStep /\ pre.is_fading
                            /\ now' - pre.fade_start_time >= pre.fade_duration)
               /\ pre.is_fading =>
                      \A j \in SameTriangle(triangles', pre) :
                          /\ triangles'[j].is_fading
                          /\ triangles'[j].fade_start_time = pre.fade_start_time
                          /\ triangles'[j].fade_duration = pre.fade_duration]_vars

\* a volley gone after a full lifetime: one frame ago, when every projectile
\* of it was in the last second of its lifetime and fading, the cursor touched
\* one of them and was hidden; now nothing of the volley is left
C40_Witness ==
    /\ last_tick.updated
    /\ triangles = << >>
    /\ cursor_hidden
    /\ now - cursor_hide_start_time = LongestFrame
    /\ \E k \in 1 .. Len(circles) :
          /\ circles[k].type = "SHOOTER"
          /\ circles[k].last_shot_time > 0
          /\ now - circles[k].last_shot_time = TriangleLifetime + LongestFrame

\* C34: a CURSOR_GRABBER committed to attack (is_stalking and will_attack) and
\* not yet grabbing stays committed, with its wait timer untouched, through
\* every step: it leaves that state only by starting to grab, and the
\* collection only once it is dying.  In every update that it begins and
\* ends committed, each other grabber whose wait has expired does not start
\* stalking and gets a new wait.
C34_CommittedGrabberStaysCommitted ==
    [][\A id \in Ids(circles) :
          LET pre == ById(circles, id)
          IN (pre.type = "CURSOR_GRABBER" /\ pre.is_stalking /\ pre.will_attack
              /\ ~pre.is_grabbing) =>
                 /\ id \notin Ids(circles') => (UpdateStep /\ pre.dying)
                 /\ id \in Ids(circles') =>
                        LET post == ById(circles', id)
                        IN /\ post.type = "CURSOR_GRABBER"
                           /\ post.is_stalking /\ post.will_attack
                           /\ post.wait_time = pre.wait_time
                           /\ post.wait_start_time = pre.wait_start_time
                           /\ post.is_grabbing => (UpdateStep /\ ~pre.dying)
                           /\ UpdateStep =>
                                  \A o \in (Ids(circles) \cap Ids(circles')) \ {id} :
                                      LET was == ById(circles, o)
                                      IN (/\ was.type = "CURSOR_GRABBER" /\ ~was.dying
                                          /\ ~was.is_grabbing /\ ~was.is_stalking
                                          /\ was.wait_start_time # 0
                                          /\ now' - was.wait_start_time >= was.wait_time) =>
                                             /\ ~ById(circles', o).is_stalking
                                             /\ ~ById(circles', o).will_attack
                                             /\ ~ById(circles', o).is_grabbing
                                             /\ ById(circles', o).wait_start_time = now'
                                             /\ \E r \in Rand :
                                                    ById(circles', o).wait_time =
                                                        Pick(RetryWaitTimes, r)]_vars

\* one grabber committed and still approaching since an earlier update, the
\* other sent back to waiting in the last one
C34_Witness ==
    \E k, m \in 1 .. Len(circles) :
        /\ circles[k].type = "CURSOR_GRABBER" /\ circles[m].type = "CURSOR_GRABBER"
        /\ circles[k].is_stalking /\ circles[k].will_attack /\ ~circles[k].is_grabbing
        /\ circles[k].stalk_start_time < now
        /\ ~circles[m].is_stalking /\ ~circles[m].is_grabbing
        /\ circles[m].wait_start_time = now
        /\ \E r \in Rand : circles[m].wait_time = Pick(RetryWaitTimes, r)
        /\ circles[m].wait_time < circles[k].wait_time
        /\ last_tick.updated

(***************************************************************************)
(* C31: corner escape starts only after the entity has been inside a        *)
(* corner region for longer than a grace window of consecutive ticks: an    *)
(* update in which corner_escape_timer leaves zero is not the first of the  *)
(* consecutive updates that found the entity in a corner.                   *)
(***************************************************************************)
EscapeStarts(c) ==
    /\ c.id \in Ids(circles)
    /\ ById(circles, c.id).corner_escape_timer = 0
    /\ c.corner_escape_timer > 0

C31_CornerEscapeAfterGraceWindow ==
    [][UpdateStep =>
          \A k \in 1 .. Len(circles') :
              EscapeStarts(circles'[k]) => circles'[k].obs_corner_ticks > 1]_vars

(***************************************************************************)
(* C33: for a snake, speed_boost_timer and speed_boost_cooldown_timer are  *)
(* never both positive; a boost starts only in a tick that found both at   *)
(* zero and the cursor within panic_detection_range; the tick that ends a  *)
(* boost starts the cooldown; and while the cooldown runs no boost starts, *)
(* wherever the cursor is.                                                 *)
(***************************************************************************)
InPanicRange(c, mouse) ==
    MinDistanceToMouse(c, mouse) * 1000 < PanicDetectionRange * c.scale_factor

C33_BoostAndCooldownAlternate ==
    /\ [](\A k \in 1 .. Len(circles) :
              ~(circles[k].speed_boost_timer > 0 /\ circles[k].speed_boost_cooldown_timer > 0))
    /\ [][\A k \in 1 .. Len(circles') :
              (circles'[k].type = "SNAKE" /\ circles'[k].id \in Ids(circles)) =>
                  LET Holds(pre, post) ==
                          \* a boost starts
                          /\ (pre.speed_boost_timer = 0 /\ post.speed_boost_timer > 0) =>
                                 /\ UpdateStep
                                 /\ pre.speed_boost_cooldown_timer = 0
                                 /\ InPanicRange(pre, last_tick'.mouse)
                                 /\ post.speed_boost_timer = post.speed_boost_duration
                          \* a boost ends
                          /\ (pre.speed_boost_timer > 0 /\ post.speed_boost_timer = 0) =>
                                 /\ UpdateStep
                                 /\ post.speed_boost_cooldown_timer > 0
                                 /\ post.speed_boost_cooldown_timer
                                        = post.speed_boost_cooldown_duration
                          \* the cooldown runs
                          /\ pre.speed_boost_cooldown_timer > 0 =>
                                 /\ post.speed_boost_timer = 0
                                 /\ UpdateStep /\ ~pre.dying =>
                                        post.speed_boost_cooldown_timer
                                            = pre.speed_boost_cooldown_timer - 1
                  IN Holds(ById(circles, circles'[k].id), circles'[k])]_vars

\* the cooldown of a finished boost running while the cursor is on the head
C33_Witness ==
    /\ last_tick.updated
    /\ \E k \in 1 .. Len(circles) :
           /\ circles[k].type = "SNAKE" /\ ~circles[k].dying
           /\ circles[k].speed_boost_timer = 0
           /\ circles[k].speed_boost_cooldown_timer > 0
           /\ circles[k].speed_boost_cooldown_timer < circles[k].speed_boost_cooldown_duration
           /\ last_tick.mouse = circles[k].x

(***************************************************************************)
(* C32: at every instant at most one of a snake head's special heading     *)
(* modes is active: circle_mode, zigzag_mode and the erratic mode          *)
(* (erratic_mode_timer > 0) are pairwise mutually exclusive.               *)
(***************************************************************************)
C32_OneHeadingModeAtATime ==
    \A k \in 1 .. Len(circles) :
        circles[k].type = "SNAKE" =>
            /\ ~(circles[k].circle_mode /\ circles[k].zigzag_mode)
            /\ ~(circles[k].circle_mode /\ circles[k].erratic_mode_timer > 0)
            /\ ~(circles[k].zigzag_mode /\ circles[k].erratic_mode_timer > 0)

====
